---- MODULE Spec2Model ----
(***************************************************************************)
(* Model of the audio playback systems of bevy_audio.                      *)
(*                                                                         *)
(* The world is a table of entities with optional components.  The four    *)
(* systems that add_audio_source registers for every source type are in    *)
(* the PostUpdate schedule without any ordering between them: they run     *)
(* once per frame in any order, each reads the world as it is, and what    *)
(* they do to the world goes through Commands, applied after all of them   *)
(* have run.  The application (spawning requests, loading assets, setting  *)
(* the global volume) acts between two runs of PostUpdate; the audio       *)
(* backend empties a playing sink at any moment.                           *)
(*                                                                         *)
(* Option<T> is a set with at most one element: None is {}, Some(x) {x}.   *)
(* Volume levels are f32 in the code; here a level is a whole number of    *)
(* 1/Unit, and a product of two levels a whole number of 1/(Unit*Unit).    *)
(* A Vec3 is a triple of integers.  A GlobalTransform is a uniform scale   *)
(* and a translation.  The listener entities are kept apart from the       *)
(* audio entities, as the sequence of those alive.                         *)
(*                                                                         *)
(* Change detection: a system sees as Changed what was written since it    *)
(* last ran; the model keeps, for each of the two position systems, what   *)
(* was written since its last run.  The position systems write only the    *)
(* positions held by spatial sinks; the specifications about the life of   *)
(* a request leave them out.                                               *)
(*                                                                         *)
(* The loading bar of bevy_ui and the example that drives it are a part    *)
(* of their own: the LoadingBarWidget components and the resource          *)
(* Progress.  The audio systems leave them alone, and the other way round. *)
(***************************************************************************)
EXTENDS Integers, Sequences, FiniteSets, TLC

\* ---------------------------------------------------------------- bounds
\* Number of entities the application spawns in a run.
MaxEntities == 1
\* A level n stands for the f32 n / Unit.
Unit == 2
\* Number of listener entities there are at a time.
MaxListeners == 2
\* Number of loading bars there are.
MaxWidgets == 2
\* A progress n stands for the f32 n / ProgressUnit.
ProgressUnit == 12
\* A time n stands for n / TimeUnit seconds.
TimeUnit == 2

\* ------------------------------------------------------------ data model
Entities == 1..MaxEntities

\* The types add_audio_source is called with in AudioPlugin::build.
SourceTypes == {"AudioSource", "Pitch"}

PlaybackMode == {"Once", "Loop", "Despawn", "Remove"}

\* VolumeLevel(1.0)
VolumeLevelDefault == Unit

Relative(level) == [kind |-> "Relative", level |-> level]
Absolute(level) == [kind |-> "Absolute", level |-> level]

\* PlaybackSettings::ONCE
ONCE ==
    [mode |-> "Once", volume |-> Relative(Unit), speed |-> 1,
     paused |-> FALSE, spatial |-> FALSE]

\* PlaybackSettings::LOOP
LOOP ==
    [mode |-> "Loop", volume |-> Relative(Unit), speed |-> 1,
     paused |-> FALSE, spatial |-> FALSE]

\* PlaybackSettings::DESPAWN
DESPAWN ==
    [mode |-> "Despawn", volume |-> Relative(Unit), speed |-> 1,
     paused |-> FALSE, spatial |-> FALSE]

\* PlaybackSettings::REMOVE
REMOVE ==
    [mode |-> "Remove", volume |-> Relative(Unit), speed |-> 1,
     paused |-> FALSE, spatial |-> FALSE]

\* The preset named after a mode.
Preset(mode) ==
    CASE mode = "Once" -> ONCE
      [] mode = "Loop" -> LOOP
      [] mode = "Despawn" -> DESPAWN
      [] mode = "Remove" -> REMOVE

\* A default that despawns, one of the alternatives the source considers.
PlaybackSettings_default_despawn == DESPAWN

\* PlaybackSettings::default()
PlaybackSettings_default == ONCE

with_spatial(settings, spatial) == [settings EXCEPT !.spatial = spatial]
with_volume(settings, volume) == [settings EXCEPT !.volume = volume]
paused(settings) == [settings EXCEPT !.paused = TRUE]
with_speed(settings, speed) == [settings EXCEPT !.speed = speed]

\* GlobalVolume::default(): VolumeLevel::default() is 1.0.
GlobalVolumeDefault == VolumeLevelDefault

None == {}
Some(x) == {x}
Unwrap(opt) == CHOOSE x \in opt : TRUE

\* VolumeLevel::new: debug_assert!(volume >= 0.0) panics in a build with debug
\* assertions (None); any other build takes the value as it is.
VolumeLevel_new(volume, debug_assertions) ==
    IF debug_assertions /\ volume < 0 THEN None ELSE Some(volume)

Volume_new_relative(volume, debug_assertions) ==
    {Relative(level) : level \in VolumeLevel_new(volume, debug_assertions)}

Volume_new_absolute(volume, debug_assertions) ==
    {Absolute(level) : level \in VolumeLevel_new(volume, debug_assertions)}

GlobalVolume_new(volume, debug_assertions) == VolumeLevel_new(volume, debug_assertions)

\* Vec3 and its component-wise operators.
Vec3(x, y, z) == <<x, y, z>>
Vec3ZERO == Vec3(0, 0, 0)
Vec3ONE == Vec3(1, 1, 1)
Vec3X == Vec3(1, 0, 0)
Vec3Add(a, b) == Vec3(a[1] + b[1], a[2] + b[2], a[3] + b[3])
Vec3Mul(a, b) == Vec3(a[1] * b[1], a[2] * b[2], a[3] * b[3])
Vec3Scale(a, k) == Vec3(a[1] * k, a[2] * k, a[3] * k)

\* GlobalTransform: an affine map, here a uniform scale and a translation.
GlobalTransform(scale, translation) == [scale |-> scale, translation |-> translation]
translation(transform) == transform.translation
transform_point(transform, point) ==
    Vec3Add(Vec3Scale(point, transform.scale), transform.translation)

\* The left ear on the right and the right ear on the left.
SpatialListener_new_swapped(gap) ==
    [left_ear_offset |-> Vec3Scale(Vec3X, gap \div 2),
     right_ear_offset |-> Vec3Scale(Vec3X, -(gap \div 2))]

\* SpatialListener::new(gap), for an even gap: the ears on the x axis.
SpatialListener_new(gap) ==
    [left_ear_offset |-> Vec3Scale(Vec3X, -(gap \div 2)),
     right_ear_offset |-> Vec3Scale(Vec3X, gap \div 2)]

\* SpatialListener::default() is Self::new(4.)
DefaultGap == 4
SpatialListener_default == SpatialListener_new(DefaultGap)

\* SpatialScale::default(), new and new_2d.
SpatialScaleDefault == Vec3ONE
SpatialScale_new(scale) == Vec3(scale, scale, scale)
\* A 2-D scale that leaves the depth as it is.
SpatialScale_new_2d_deep(scale) == Vec3(scale, scale, 1)
SpatialScale_new_2d(scale) == Vec3(scale, scale, 0)

\* An entity with a SpatialListener, with a GlobalTransform or none; changed
\* when one of the two was written since update_listener_positions last ran.
ListenerEntity(transform, listener_settings) ==
    [GlobalTransform |-> transform, SpatialListener |-> listener_settings, changed |-> TRUE]

\* ------------------------------------------------------------ loading bar
\* LoadingBarWidget: progress is an f32 in the code, here a whole number of
\* 1/ProgressUnit; times are whole numbers of 1/TimeUnit of a second.
Widgets == 1..MaxWidgets

LoadingBarWidget_new(value) == [progress |-> value]

get_progress(widget) == widget.progress

\* The value is stored whatever it is.
set_progress_unchecked(widget, value) == [widget EXCEPT !.progress = value]

\* LoadingBarWidget::set_progress: out of [0, 1] the value is dropped with a
\* warning.
set_progress(widget, value) ==
    IF value >= 0 /\ value <= ProgressUnit
    THEN [widget EXCEPT !.progress = value]
    ELSE widget

\* The resource Progress of the example.
Loading(value) == [kind |-> "Loading", value |-> value]
Completed(value) == [kind |-> "Completed", value |-> value]

LOAD_DURATION == 3 * TimeUnit
COMPLETE_DURATION == (3 * TimeUnit) \div 2

map_range(value, old_range, new_range) ==
    ((value - old_range[1]) * (new_range[2] - new_range[1])) \div (old_range[2] - old_range[1])
        + new_range[1]

\* An entity that does not exist (not spawned yet, or despawned).
NoEntity ==
    [alive |-> FALSE, Handle |-> {}, PlaybackSettings |-> None,
     GlobalTransform |-> None,
     AudioSink |-> None, SpatialAudioSink |-> None,
     PlaybackDespawnMarker |-> FALSE, PlaybackRemoveMarker |-> FALSE]

VARIABLES
    stream_handle,   \* AudioOutput.stream_handle.is_some()
    audio_sources,   \* Assets<Source>: the asset of each source type is loaded
    global_volume,   \* GlobalVolume.volume
    world,           \* the entities and their components
    spawned,         \* number of entities spawned so far
    commands,        \* the Commands queued in this run of PostUpdate
    warned,          \* <<entity, T>>: try_new failed for it in this run ("Error playing sound")
    ran,             \* the systems that have run in this run of PostUpdate
    spatial_scale,   \* SpatialScale
    listeners,       \* the listener entities alive, in the order of their creation
    emitter_changed, \* entities whose GlobalTransform was written since update_emitter_positions ran
    scale_changed,   \* SpatialScale was written since update_listener_positions ran
    widgets,         \* the LoadingBarWidget components, by widget entity
    progress         \* the resource Progress of the loading bar example

\* What the lifecycle of a request does not touch.
spatialVars == <<spatial_scale, listeners, emitter_changed, scale_changed>>

\* What the audio systems do not touch: the loading bars.
uiVars == <<widgets, progress>>

\* What the loading bars do not touch.
audioVars ==
    <<stream_handle, audio_sources, global_volume, world, spawned, commands, warned, ran,
      spatial_scale, listeners, emitter_changed, scale_changed>>

vars ==
    <<stream_handle, audio_sources, global_volume, world, spawned, commands, warned, ran,
      spatial_scale, listeners, emitter_changed, scale_changed, widgets, progress>>

\* The systems add_audio_source adds to PostUpdate, per source type.
Systems == {"play_queued_audio_system", "cleanup_finished_audio"} \X SourceTypes

\* Between two runs of PostUpdate: nothing has run and nothing is queued.
InUpdate == ran = {} /\ commands = <<>>

\* ------------------------------------------------------------------ sinks
\* The volume play_queued_audio_system sets on a fresh sink, in 1/(Unit*Unit).
SinkVolumeIgnoringKind(volume, global) == volume.level * global

SinkVolume(volume, global) ==
    IF volume.kind = "Relative" THEN volume.level * global
    ELSE volume.level * Unit

\* Every mode feeds the decoder once.
NeverRepeats(mode) == FALSE

\* Loop appends decoder().repeat_infinite(), every other mode decoder().
RepeatsInfinite(mode) == mode = "Loop"

\* The sink try_new returns: nothing queued, speed and volume 1, playing.
\* setup lists the calls made on it; started tells that it has played; source
\* is the type of the source appended to it.
IdleSink ==
    [speed |-> 1, volume |-> Unit * Unit, paused |-> FALSE, looped |-> FALSE,
     empty |-> TRUE, started |-> FALSE, setup |-> <<>>, source |-> None]

\* A call on a sink: a source appended to a sink that is not paused plays.
Call(sink, call) ==
    LET logged == [sink EXCEPT !.setup = Append(@, call.op)]
    IN  CASE call.op = "set_speed" -> [logged EXCEPT !.speed = call.arg]
          [] call.op = "set_volume" -> [logged EXCEPT !.volume = call.arg]
          [] call.op = "pause" -> [logged EXCEPT !.paused = TRUE]
          [] call.op = "append" ->
                [logged EXCEPT !.looped = call.arg, !.empty = FALSE,
                               !.started = ~sink.paused,
                               !.source = Some(call.source)]

RECURSIVE Calls(_, _)
Calls(sink, calls) ==
    IF calls = <<>> THEN sink
    ELSE Calls(Call(sink, Head(calls)), Tail(calls))

\* The source is appended before the settings are applied.
SetupCallsAppendFirst(settings, global, T) ==
       <<[op |-> "append", arg |-> RepeatsInfinite(settings.mode), source |-> T],
         [op |-> "set_speed", arg |-> settings.speed],
         [op |-> "set_volume", arg |-> SinkVolume(settings.volume, global)]>>
    \o (IF settings.paused THEN <<[op |-> "pause", arg |-> TRUE]>> ELSE <<>>)

\* The calls of play_queued_audio_system on a sink it has opened, in order.
SetupCalls(settings, global, T) ==
       <<[op |-> "set_speed", arg |-> settings.speed],
         [op |-> "set_volume", arg |-> SinkVolume(settings.volume, global)]>>
    \o (IF settings.paused THEN <<[op |-> "pause", arg |-> TRUE]>> ELSE <<>>)
    \o <<[op |-> "append", arg |-> RepeatsInfinite(settings.mode), source |-> T]>>

\* The sink as it is after set_speed, set_volume, pause and append.
NewSink(settings, global, T) == Calls(IdleSink, SetupCalls(settings, global, T))

\* The listeners the query (Entity, &GlobalTransform, &SpatialListener) yields,
\* in the order of iteration: the order of their creation.
ListenerQuery ==
    SelectSeq(listeners, LAMBDA listener : listener.GlobalTransform /= None)

\* The ears of a listener: its offsets through its transform, then scaled.
EarsOf(transform, listener_settings) ==
    <<Vec3Mul(transform_point(transform, listener_settings.left_ear_offset), spatial_scale),
      Vec3Mul(transform_point(transform, listener_settings.right_ear_offset), spatial_scale)>>

\* Without a listener the default offsets are used as they are.
get_ear_positions_unscaled ==
    IF ListenerQuery /= <<>>
    THEN EarsOf(Unwrap(Head(ListenerQuery).GlobalTransform),
                Head(ListenerQuery).SpatialListener)
    ELSE <<SpatialListener_default.left_ear_offset,
           SpatialListener_default.right_ear_offset>>

\* With several listeners the last of the query is used.
get_ear_positions_last ==
    IF ListenerQuery /= <<>>
    THEN EarsOf(Unwrap(ListenerQuery[Len(ListenerQuery)].GlobalTransform),
                ListenerQuery[Len(ListenerQuery)].SpatialListener)
    ELSE <<Vec3Mul(SpatialListener_default.left_ear_offset, spatial_scale),
           Vec3Mul(SpatialListener_default.right_ear_offset, spatial_scale)>>

\* A listener without a GlobalTransform is taken to sit at the origin.
get_ear_positions_untransformed ==
    IF listeners /= <<>>
    THEN EarsOf(IF Head(listeners).GlobalTransform /= None
                THEN Unwrap(Head(listeners).GlobalTransform)
                ELSE GlobalTransform(1, Vec3ZERO),
                Head(listeners).SpatialListener)
    ELSE <<Vec3Mul(SpatialListener_default.left_ear_offset, spatial_scale),
           Vec3Mul(SpatialListener_default.right_ear_offset, spatial_scale)>>

\* listener.query.iter().len() > 1: "Multiple SpatialListeners found" is logged.
multiple_listeners == Len(ListenerQuery) > 1

\* SpatialListenerSystemParam::get_ear_positions: <<left_ear, right_ear>> of
\* the first listener of the query, or of the default listener.
get_ear_positions ==
    IF ListenerQuery /= <<>>
    THEN EarsOf(Unwrap(Head(ListenerQuery).GlobalTransform),
                Head(ListenerQuery).SpatialListener)
    ELSE <<Vec3Mul(SpatialListener_default.left_ear_offset, spatial_scale),
           Vec3Mul(SpatialListener_default.right_ear_offset, spatial_scale)>>

\* An entity without a transform is taken to be at (1, 1, 1).
emitter_translation_unit(maybe_emitter_transform) ==
    IF maybe_emitter_transform /= None
    THEN Vec3Mul(translation(Unwrap(maybe_emitter_transform)), spatial_scale)
    ELSE Vec3Mul(Vec3ONE, spatial_scale)

\* emitter_translation: the scaled translation of the entity, or zero.
emitter_translation(maybe_emitter_transform) ==
    IF maybe_emitter_transform /= None
    THEN Vec3Mul(translation(Unwrap(maybe_emitter_transform)), spatial_scale)
    ELSE Vec3ZERO

\* SpatialSink::try_new(stream_handle, emitter, left_ear, right_ear), then set
\* up as a plain sink is.
NewSpatialSink(settings, global, emitter, ears, T) ==
    NewSink(settings, global, T)
        @@ [emitter |-> emitter, left_ear |-> ears[1], right_ear |-> ears[2]]

\* Every request, spatial or not, gets the plain sink component.
SinkComponentPlain(settings) == "AudioSink"

\* The component the sink is wrapped in.
SinkComponent(settings) ==
    IF settings.spatial THEN "SpatialAudioSink" ELSE "AudioSink"

\* No mode attaches a marker.
NoMarker(mode) == {}

\* Every mode but Loop ends with a despawn.
MarkerUnlessLoop(mode) == IF mode = "Loop" THEN {} ELSE {"PlaybackDespawnMarker"}

\* A Remove request gets the Despawn marker too.
MarkerBothOnRemove(mode) ==
    CASE mode = "Despawn" -> {"PlaybackDespawnMarker"}
      [] mode = "Remove" -> {"PlaybackDespawnMarker", "PlaybackRemoveMarker"}
      [] OTHER -> {}

\* The marker inserted in the same bundle as the sink.
Marker(mode) ==
    CASE mode = "Despawn" -> {"PlaybackDespawnMarker"}
      [] mode = "Remove" -> {"PlaybackRemoveMarker"}
      [] OTHER -> {}

\* ---------------------------------------------------------------- queries
\* Every entity with a request of this source type, also one that plays.
QueryAllRequests(T) ==
    {e \in Entities :
        /\ world[e].alive
        /\ T \in world[e].Handle
        /\ world[e].PlaybackSettings /= None}

\* The filter Without<SpatialAudioSink> is left out.
QueryWithoutAudioSink(T) ==
    {e \in Entities :
        /\ world[e].alive
        /\ T \in world[e].Handle
        /\ world[e].PlaybackSettings /= None
        /\ world[e].AudioSink = None}

\* query_nonplaying of play_queued_audio_system::<T>.
QueryNonplaying(T) ==
    {e \in Entities :
        /\ world[e].alive
        /\ T \in world[e].Handle
        /\ world[e].PlaybackSettings /= None
        /\ world[e].AudioSink = None
        /\ world[e].SpatialAudioSink = None}

\* The queries without the filter With<Handle<T>>.
QueryCleanupAnyHandle(T, sink, marker) ==
    {e \in Entities :
        /\ world[e].alive
        /\ world[e][sink] /= None
        /\ world[e][marker]}

\* The four queries of cleanup_finished_audio::<T>.
QueryCleanup(T, sink, marker) ==
    {e \in Entities :
        /\ world[e].alive
        /\ world[e][sink] /= None
        /\ world[e][marker]
        /\ T \in world[e].Handle}

\* ------------------------------------------------------------- commands
InsertCommand(e, components, sink) ==
    [op |-> "insert", entity |-> e, components |-> components, sink |-> Some(sink)]

DespawnCommand(e) ==
    [op |-> "despawn", entity |-> e, components |-> {}, sink |-> None]

RemoveCommand(e, components) ==
    [op |-> "remove", entity |-> e, components |-> components, sink |-> None]

\* EntityCommands::insert of a bundle: the sink component and the markers.
Insert(ent, cmd) ==
    [ent EXCEPT
        !.AudioSink =
            IF "AudioSink" \in cmd.components THEN cmd.sink ELSE @,
        !.SpatialAudioSink =
            IF "SpatialAudioSink" \in cmd.components THEN cmd.sink ELSE @,
        !.PlaybackDespawnMarker =
            IF "PlaybackDespawnMarker" \in cmd.components THEN TRUE ELSE @,
        !.PlaybackRemoveMarker =
            IF "PlaybackRemoveMarker" \in cmd.components THEN TRUE ELSE @]

\* EntityCommands::remove of a bundle: a source type T names Handle<T>.
Remove(ent, cmd) ==
    [ent EXCEPT
        !.Handle = @ \ cmd.components,
        !.PlaybackSettings =
            IF "PlaybackSettings" \in cmd.components THEN None ELSE @,
        !.AudioSink =
            IF "AudioSink" \in cmd.components THEN None ELSE @,
        !.SpatialAudioSink =
            IF "SpatialAudioSink" \in cmd.components THEN None ELSE @,
        !.PlaybackDespawnMarker =
            IF "PlaybackDespawnMarker" \in cmd.components THEN FALSE ELSE @,
        !.PlaybackRemoveMarker =
            IF "PlaybackRemoveMarker" \in cmd.components THEN FALSE ELSE @]

\* One command applied to the world; a command for an entity that no longer
\* exists changes nothing.
ApplyCommand(w, cmd) ==
    IF ~w[cmd.entity].alive THEN w
    ELSE CASE cmd.op = "insert" ->
                [w EXCEPT ![cmd.entity] = Insert(@, cmd)]
           [] cmd.op = "despawn" ->
                [w EXCEPT ![cmd.entity] = NoEntity]
           [] cmd.op = "remove" ->
                [w EXCEPT ![cmd.entity] = Remove(@, cmd)]

RECURSIVE ApplyCommands(_, _)
ApplyCommands(w, queue) ==
    IF queue = <<>> THEN w
    ELSE ApplyCommands(ApplyCommand(w, Head(queue)), Tail(queue))

\* The commands of the queue that despawn e or strip its audio components.
ReapCommands(queue, e) ==
    {i \in DOMAIN queue :
        queue[i].entity = e /\ queue[i].op \in {"despawn", "remove"}}

\* The commands of the queue that insert a sink on e.
SinkCommands(queue, e) ==
    {i \in DOMAIN queue : queue[i].entity = e /\ queue[i].op = "insert"}

\* ---------------------------------------------------------------- systems
\* Run condition of AudioPlaySet.
audio_output_available == stream_handle

\* The asset is taken for loaded whether it is or not.
audio_sources_get_always(T) == TRUE

\* audio_sources.get(source_handle) is Some: the asset has loaded.
audio_sources_get(T) == audio_sources[T]

\* The sink try_new returns for the request of e, set up from its settings
\* and fed with its source of type T.
FreshSink(e, settings, T) ==
    IF settings.spatial
    THEN NewSpatialSink(settings, global_volume,
                        emitter_translation(world[e].GlobalTransform),
                        get_ear_positions, T)
    ELSE NewSink(settings, global_volume, T)

\* On a failed try_new the marker of the mode is inserted all the same.
PlayCommandMarkerFirst(e, T, failed) ==
    LET settings == Unwrap(world[e].PlaybackSettings)
    IN  IF ~audio_sources_get(T) THEN <<>>
        ELSE IF e \in failed
        THEN <<[op |-> "insert", entity |-> e,
                components |-> Marker(settings.mode), sink |-> None]>>
        ELSE <<InsertCommand(e,
                   {SinkComponent(settings)} \cup Marker(settings.mode),
                   FreshSink(e, settings, T))>>

\* What play_queued_audio_system does for one entity of query_nonplaying:
\* nothing while the asset is not loaded or when try_new fails, else one
\* insert of the sink and the marker of its mode.
PlayCommand(e, T, failed) ==
    LET settings == Unwrap(world[e].PlaybackSettings)
    IN  IF audio_sources_get(T) /\ e \notin failed
        THEN <<InsertCommand(e,
                   {SinkComponent(settings)} \cup Marker(settings.mode),
                   FreshSink(e, settings, T))>>
        ELSE <<>>

\* The for loop of play_queued_audio_system over the entities 1..n.
RECURSIVE PlayCommands(_, _, _)
PlayCommands(T, failed, n) ==
    IF n = 0 THEN <<>>
    ELSE PlayCommands(T, failed, n - 1)
         \o (IF n \in QueryNonplaying(T) THEN PlayCommand(n, T, failed) ELSE <<>>)

\* The body without the check of stream_handle.
play_queued_unchecked(T, failed) ==
    /\ commands' = commands \o PlayCommands(T, failed, MaxEntities)
    /\ warned' = warned \cup (failed \X {T})

\* play_queued_audio_system::<T>; try_new fails for the entities in failed.
play_queued_audio_system(T, failed) ==
    IF ~stream_handle
    THEN UNCHANGED <<commands, warned>>
    ELSE /\ commands' = commands \o PlayCommands(T, failed, MaxEntities)
         /\ warned' = warned \cup (failed \X {T})

\* A finished sink gets its entity despawned whatever the marker.
ReapCommandDespawnAlways(e, T, sink, marker) == DespawnCommand(e)

\* The Remove arm leaves the marker on the entity.
ReapCommandKeepMarker(e, T, sink, marker) ==
    IF marker = "PlaybackDespawnMarker"
    THEN DespawnCommand(e)
    ELSE RemoveCommand(e, {T, "PlaybackSettings", sink})

\* What a finished sink of one of the four queries gets.
ReapCommand(e, T, sink, marker) ==
    IF marker = "PlaybackDespawnMarker"
    THEN DespawnCommand(e)
    ELSE RemoveCommand(e, {T, "PlaybackSettings", sink, "PlaybackRemoveMarker"})

\* A sweep that does not look at sink.empty().
FinishedOrNot(e, sink) == TRUE

\* sink.sink.empty()
Finished(e, sink) == Unwrap(world[e][sink]).empty

\* One of the four for loops of cleanup_finished_audio over the entities 1..n.
RECURSIVE CleanupLoop(_, _, _, _)
CleanupLoop(T, sink, marker, n) ==
    IF n = 0 THEN <<>>
    ELSE CleanupLoop(T, sink, marker, n - 1)
         \o (IF n \in QueryCleanup(T, sink, marker) /\ Finished(n, sink)
             THEN <<ReapCommand(n, T, sink, marker)>>
             ELSE <<>>)

\* A sweep that forgets the spatial sinks.
CleanupCommandsPlainOnly(T) ==
       CleanupLoop(T, "AudioSink", "PlaybackDespawnMarker", MaxEntities)
    \o CleanupLoop(T, "AudioSink", "PlaybackRemoveMarker", MaxEntities)

\* cleanup_finished_audio::<T>: the four loops in the order of the code.
CleanupCommands(T) ==
       CleanupLoop(T, "AudioSink", "PlaybackDespawnMarker", MaxEntities)
    \o CleanupLoop(T, "SpatialAudioSink", "PlaybackDespawnMarker", MaxEntities)
    \o CleanupLoop(T, "AudioSink", "PlaybackRemoveMarker", MaxEntities)
    \o CleanupLoop(T, "SpatialAudioSink", "PlaybackRemoveMarker", MaxEntities)

cleanup_finished_audio(T) == commands' = commands \o CleanupCommands(T)

\* The entities for which play_queued_audio_system::<T> calls try_new.
Opening(T) == IF audio_sources_get(T) THEN QueryNonplaying(T) ELSE {}

\* The orchestrator run whether or not there is an audio device.
PlayQueuedAlways(T) ==
    /\ <<"play_queued_audio_system", T>> \notin ran
    /\ ran' = ran \cup {<<"play_queued_audio_system", T>>}
    /\ \E failed \in SUBSET Opening(T) : play_queued_unchecked(T, failed)
    /\ UNCHANGED spatialVars
    /\ UNCHANGED <<stream_handle, audio_sources, global_volume, world, spawned>>
    /\ UNCHANGED uiVars

\* The orchestrator writes the sinks to the world as it goes.
PlayQueuedImmediate(T) ==
    /\ <<"play_queued_audio_system", T>> \notin ran
    /\ ran' = ran \cup {<<"play_queued_audio_system", T>>}
    /\ IF audio_output_available
       THEN /\ world' = ApplyCommands(world, PlayCommands(T, {}, MaxEntities))
            /\ UNCHANGED <<commands, warned>>
       ELSE UNCHANGED <<world, commands, warned>>
    /\ UNCHANGED spatialVars
    /\ UNCHANGED <<stream_handle, audio_sources, global_volume, spawned>>
    /\ UNCHANGED uiVars

\* The orchestrator drops the stream handle when an open fails.
PlayQueuedDroppingDevice(T) ==
    /\ <<"play_queued_audio_system", T>> \notin ran
    /\ ran' = ran \cup {<<"play_queued_audio_system", T>>}
    /\ IF audio_output_available
       THEN \E failed \in SUBSET Opening(T) :
                /\ play_queued_audio_system(T, failed)
                /\ stream_handle' = (failed = {})
       ELSE UNCHANGED <<commands, warned, stream_handle>>
    /\ UNCHANGED spatialVars
    /\ UNCHANGED <<audio_sources, global_volume, world, spawned>>
    /\ UNCHANGED uiVars

\* PostUpdate runs play_queued_audio_system::<T>, in AudioPlaySet.
PlayQueued(T) ==
    /\ <<"play_queued_audio_system", T>> \notin ran
    /\ ran' = ran \cup {<<"play_queued_audio_system", T>>}
    /\ IF audio_output_available
       THEN \E failed \in SUBSET Opening(T) : play_queued_audio_system(T, failed)
       ELSE UNCHANGED <<commands, warned>>
    /\ UNCHANGED spatialVars
    /\ UNCHANGED <<stream_handle, audio_sources, global_volume, world, spawned>>
    /\ UNCHANGED uiVars

\* PostUpdate runs cleanup_finished_audio::<T>, in AudioPlaySet.
Cleanup(T) ==
    /\ <<"cleanup_finished_audio", T>> \notin ran
    /\ ran' = ran \cup {<<"cleanup_finished_audio", T>>}
    /\ IF audio_output_available
       THEN cleanup_finished_audio(T)
       ELSE commands' = commands
    /\ UNCHANGED spatialVars
    /\ UNCHANGED <<stream_handle, audio_sources, global_volume, world, spawned, warned>>
    /\ UNCHANGED uiVars

\* The entities of the query of update_emitter_positions.
EmitterQuery ==
    {e \in Entities :
        /\ world[e].alive
        /\ world[e].GlobalTransform /= None
        /\ world[e].SpatialAudioSink /= None
        /\ e \in emitter_changed}

\* Moving the emitter drops the sink.
set_emitter_position_dropping(ent, position) ==
    [ent EXCEPT !.SpatialAudioSink = None]

\* sink.set_emitter_position(translation)
set_emitter_position(ent, position) ==
    [ent EXCEPT !.SpatialAudioSink = Some([Unwrap(@) EXCEPT !.emitter = position])]

\* sink.set_ears_position(left_ear, right_ear)
set_ears_position(ent, ears) ==
    [ent EXCEPT !.SpatialAudioSink =
        Some([Unwrap(@) EXCEPT !.left_ear = ears[1], !.right_ear = ears[2]])]

\* The sinks are moved to the translation as it is, not scaled.
update_emitter_positions_unscaled ==
    world' = [e \in Entities |->
                IF e \in EmitterQuery
                THEN set_emitter_position(world[e],
                         translation(Unwrap(world[e].GlobalTransform)))
                ELSE world[e]]

\* update_emitter_positions: the sinks of the entities whose transform
\* changed are moved to its scaled translation.
update_emitter_positions ==
    world' = [e \in Entities |->
                IF e \in EmitterQuery
                THEN set_emitter_position(world[e],
                         Vec3Mul(translation(Unwrap(world[e].GlobalTransform)), spatial_scale))
                ELSE world[e]]

\* The query changed_listener is empty.
changed_listener_is_empty == \A i \in DOMAIN listeners : ~listeners[i].changed

\* The ears are pushed in every frame, changed or not.
update_listener_positions_always ==
    world' = [e \in Entities |->
                IF world[e].alive /\ world[e].SpatialAudioSink /= None
                THEN set_ears_position(world[e], get_ear_positions)
                ELSE world[e]]

\* update_listener_positions: nothing unless the scale or a listener
\* changed, else every spatial sink gets the ear positions.
update_listener_positions ==
    IF ~scale_changed /\ changed_listener_is_empty
    THEN world' = world
    ELSE world' = [e \in Entities |->
                     IF world[e].alive /\ world[e].SpatialAudioSink /= None
                     THEN set_ears_position(world[e], get_ear_positions)
                     ELSE world[e]]

\* PostUpdate runs update_emitter_positions, in AudioPlaySet; having run, it
\* has seen every change so far.
UpdateEmitterPositions(T) ==
    /\ <<"update_emitter_positions", T>> \notin ran
    /\ ran' = ran \cup {<<"update_emitter_positions", T>>}
    /\ IF audio_output_available
       THEN update_emitter_positions /\ emitter_changed' = {}
       ELSE UNCHANGED <<world, emitter_changed>>
    /\ UNCHANGED <<spatial_scale, listeners, scale_changed>>
    /\ UNCHANGED <<stream_handle, audio_sources, global_volume, spawned, commands, warned>>
    /\ UNCHANGED uiVars

\* PostUpdate runs update_listener_positions, in AudioPlaySet.
UpdateListenerPositions(T) ==
    /\ <<"update_listener_positions", T>> \notin ran
    /\ ran' = ran \cup {<<"update_listener_positions", T>>}
    /\ IF audio_output_available
       THEN /\ update_listener_positions
            /\ listeners' = [i \in DOMAIN listeners |-> [listeners[i] EXCEPT !.changed = FALSE]]
            /\ scale_changed' = FALSE
       ELSE UNCHANGED <<world, listeners, scale_changed>>
    /\ UNCHANGED <<spatial_scale, emitter_changed>>
    /\ UNCHANGED <<stream_handle, audio_sources, global_volume, spawned, commands, warned>>
    /\ UNCHANGED uiVars

\* The end of PostUpdate, after these systems: the queued commands are
\* applied in order.
ApplyAfter(systems) ==
    /\ ran = systems
    /\ world' = ApplyCommands(world, commands)
    /\ commands' = <<>>
    /\ warned' = {}
    /\ ran' = {}
    /\ UNCHANGED spatialVars
    /\ UNCHANGED <<stream_handle, audio_sources, global_volume, spawned>>
    /\ UNCHANGED uiVars

ApplyDeferred == ApplyAfter(Systems)

\* ------------------------------------------------------------ environment
\* The application spawns an entity with source handles and settings.
\* The entity has a GlobalTransform or none.
SpawnAt(handles, settings, transform) ==
    /\ InUpdate
    /\ spawned < MaxEntities
    /\ spawned' = spawned + 1
    /\ world' = [world EXCEPT ![spawned + 1] =
                    [NoEntity EXCEPT !.alive = TRUE,
                                     !.Handle = handles,
                                     !.PlaybackSettings = Some(settings),
                                     !.GlobalTransform = transform]]
    /\ emitter_changed' =
            IF transform /= None THEN emitter_changed \cup {spawned + 1}
            ELSE emitter_changed
    /\ UNCHANGED <<spatial_scale, listeners, scale_changed>>
    /\ UNCHANGED <<stream_handle, audio_sources, global_volume, commands, warned, ran>>
    /\ UNCHANGED uiVars

Spawn(handles, settings) == SpawnAt(handles, settings, None)

\* The asset server finishes loading the asset of source type T.
LoadAsset(T) ==
    /\ InUpdate
    /\ ~audio_sources[T]
    /\ audio_sources' = [audio_sources EXCEPT ![T] = TRUE]
    /\ UNCHANGED spatialVars
    /\ UNCHANGED <<stream_handle, global_volume, world, spawned, commands, warned, ran>>
    /\ UNCHANGED uiVars

\* The application writes GlobalVolume.
SetGlobalVolume(level) ==
    /\ InUpdate
    /\ level /= global_volume
    /\ global_volume' = level
    /\ UNCHANGED spatialVars
    /\ UNCHANGED <<stream_handle, audio_sources, world, spawned, commands, warned, ran>>
    /\ UNCHANGED uiVars

\* The application spawns a request with a volume it has built, unless the
\* constructor panicked.
SpawnWithVolume(volume) ==
    /\ volume /= None
    /\ Spawn({"AudioSource"}, with_volume(Preset("Once"), Unwrap(volume)))

\* The application replaces GlobalVolume by one it has built.
InsertGlobalVolume(volume) ==
    /\ volume /= None
    /\ SetGlobalVolume(Unwrap(volume))

\* The application writes the PlaybackSettings of an entity.
SetSettings(e, settings) ==
    /\ InUpdate
    /\ world[e].alive
    /\ world[e].PlaybackSettings /= None
    /\ world[e].PlaybackSettings /= Some(settings)
    /\ world' = [world EXCEPT ![e].PlaybackSettings = Some(settings)]
    /\ UNCHANGED spatialVars
    /\ UNCHANGED <<stream_handle, audio_sources, global_volume, spawned, commands, warned, ran>>
    /\ UNCHANGED uiVars

\* The application inserts source handles and settings again on an entity
\* that has no request.
ReAdd(e, handles, settings) ==
    /\ InUpdate
    /\ world[e].alive
    /\ world[e].PlaybackSettings = None
    /\ world' = [world EXCEPT ![e].Handle = @ \cup handles,
                              ![e].PlaybackSettings = Some(settings)]
    /\ UNCHANGED spatialVars
    /\ UNCHANGED <<stream_handle, audio_sources, global_volume, spawned, commands, warned, ran>>
    /\ UNCHANGED uiVars

\* The application removes Handle<T> from an entity.
RemoveHandle(e, T) ==
    /\ InUpdate
    /\ world[e].alive
    /\ T \in world[e].Handle
    /\ world' = [world EXCEPT ![e].Handle = @ \ {T}]
    /\ UNCHANGED spatialVars
    /\ UNCHANGED <<stream_handle, audio_sources, global_volume, spawned, commands, warned, ran>>
    /\ UNCHANGED uiVars

\* The application spawns an entity with a SpatialListener.
SpawnListener(transform, listener_settings) ==
    /\ InUpdate
    /\ Len(listeners) < MaxListeners
    /\ listeners' = Append(listeners, ListenerEntity(transform, listener_settings))
    /\ UNCHANGED <<spatial_scale, emitter_changed, scale_changed>>
    /\ UNCHANGED <<stream_handle, audio_sources, global_volume, world, spawned, commands, warned, ran>>
    /\ UNCHANGED uiVars

\* The GlobalTransform of a listener is written.
MoveListener(i, transform) ==
    /\ InUpdate
    /\ i \in DOMAIN listeners
    /\ listeners[i].GlobalTransform /= None
    /\ listeners[i].GlobalTransform /= Some(transform)
    /\ listeners' = [listeners EXCEPT ![i].GlobalTransform = Some(transform),
                                      ![i].changed = TRUE]
    /\ UNCHANGED <<spatial_scale, emitter_changed, scale_changed>>
    /\ UNCHANGED <<stream_handle, audio_sources, global_volume, world, spawned, commands, warned, ran>>
    /\ UNCHANGED uiVars

\* The application despawns a listener.
DespawnListener(i) ==
    /\ InUpdate
    /\ i \in DOMAIN listeners
    /\ listeners' = SubSeq(listeners, 1, i - 1) \o SubSeq(listeners, i + 1, Len(listeners))
    /\ UNCHANGED <<spatial_scale, emitter_changed, scale_changed>>
    /\ UNCHANGED <<stream_handle, audio_sources, global_volume, world, spawned, commands, warned, ran>>
    /\ UNCHANGED uiVars

\* The application writes SpatialScale.
SetSpatialScale(scale) ==
    /\ InUpdate
    /\ spatial_scale /= scale
    /\ spatial_scale' = scale
    /\ scale_changed' = TRUE
    /\ UNCHANGED <<listeners, emitter_changed>>
    /\ UNCHANGED <<stream_handle, audio_sources, global_volume, world, spawned, commands, warned, ran>>
    /\ UNCHANGED uiVars

\* The GlobalTransform of an audio entity is written.
MoveEmitter(e, transform) ==
    /\ InUpdate
    /\ world[e].alive
    /\ world[e].GlobalTransform /= None
    /\ world[e].GlobalTransform /= Some(transform)
    /\ world' = [world EXCEPT ![e].GlobalTransform = Some(transform)]
    /\ emitter_changed' = emitter_changed \cup {e}
    /\ UNCHANGED <<spatial_scale, listeners, scale_changed>>
    /\ UNCHANGED <<stream_handle, audio_sources, global_volume, spawned, commands, warned, ran>>
    /\ UNCHANGED uiVars

\* The application writes through DerefMut the f32 of the level of a request.
DerefMutLevel(e, value) ==
    /\ world[e].PlaybackSettings /= None
    /\ SetSettings(e, [Unwrap(world[e].PlaybackSettings) EXCEPT !.volume.level = value])

\* The backend reaches the end of the stream of a playing sink: a paused sink
\* does not advance and a repeated stream has no end.
SinkEmpties(e, sink) ==
    /\ world[e].alive
    /\ world[e][sink] /= None
    /\ LET s == Unwrap(world[e][sink])
       IN  /\ ~s.empty
           /\ ~s.paused
           /\ ~s.looped
           /\ world' = [world EXCEPT ![e][sink] = Some([s EXCEPT !.empty = TRUE])]
    /\ UNCHANGED spatialVars
    /\ UNCHANGED <<stream_handle, audio_sources, global_volume, spawned, commands, warned, ran>>
    /\ UNCHANGED uiVars

\* The application spawns a loading bar with a progress within [0, 1].
SpawnWidget(w, value) ==
    /\ widgets[w] = None
    /\ value \in 0..ProgressUnit
    /\ widgets' = [widgets EXCEPT ![w] = Some(LoadingBarWidget_new(value))]
    /\ UNCHANGED progress
    /\ UNCHANGED audioVars

\* Some system calls set_progress on a loading bar.
SetProgress(w, value) ==
    /\ widgets[w] /= None
    /\ widgets' = [widgets EXCEPT ![w] = Some(set_progress(Unwrap(@), value))]
    /\ UNCHANGED progress
    /\ UNCHANGED audioVars

\* update_progress_state of the example, delta being time.delta_seconds().
UpdateProgressState(delta) ==
    /\ LET elapsed_time == progress.value + delta
       IN  progress' =
             IF progress.kind = "Loading"
             THEN IF elapsed_time >= LOAD_DURATION
                  THEN Completed(0) ELSE Loading(elapsed_time)
             ELSE IF elapsed_time >= COMPLETE_DURATION
                  THEN Loading(0) ELSE Completed(elapsed_time)
    /\ UNCHANGED widgets
    /\ UNCHANGED audioVars

\* set_widget_progress of the example: every loading bar is set to the
\* progress of the resource.
SetWidgetProgress ==
    /\ LET current_progress ==
            IF progress.kind = "Loading"
            THEN map_range(progress.value, <<0, LOAD_DURATION>>, <<0, ProgressUnit>>)
            ELSE ProgressUnit
       IN  widgets' = [w \in Widgets |->
                        IF widgets[w] /= None
                        THEN Some(set_progress(Unwrap(widgets[w]), current_progress))
                        ELSE None]
    /\ UNCHANGED progress
    /\ UNCHANGED audioVars

\* --------------------------------------------------------- specifications
SinkComponents == {"AudioSink", "SpatialAudioSink"}

\* Handles an entity is spawned with: one source type, or both.  The systems
\* of the two source types are the same code, so one type stands for either.
HandleSets == {{"AudioSource"}, SourceTypes}

\* The four presets, plain and spatial.
LifecycleSettings ==
    {with_spatial(Preset(mode), spatial) : mode \in PlaybackMode, spatial \in BOOLEAN}

\* AudioOutput::default() finds a device or not; nothing is spawned or loaded.
Init ==
    /\ stream_handle \in BOOLEAN
    /\ audio_sources = [T \in SourceTypes |-> FALSE]
    /\ global_volume = GlobalVolumeDefault
    /\ world = [e \in Entities |-> NoEntity]
    /\ spawned = 0
    /\ commands = <<>>
    /\ warned = {}
    /\ ran = {}
    /\ spatial_scale = SpatialScaleDefault
    /\ listeners = <<>>
    /\ emitter_changed = {}
    /\ scale_changed = TRUE
    /\ widgets = [w \in Widgets |-> None]
    /\ progress = Completed(2 * TimeUnit)

Next ==
    \/ \E handles \in HandleSets, settings \in LifecycleSettings :
            Spawn(handles, settings)
    \/ \E T \in SourceTypes : LoadAsset(T)
    \/ \E e \in Entities, sink \in SinkComponents : SinkEmpties(e, sink)
    \/ \E T \in SourceTypes : PlayQueued(T)
    \/ \E T \in SourceTypes : Cleanup(T)
    \/ ApplyDeferred

Spec == Init /\ [][Next]_vars

\* The same, and the application switches settings.spatial of a request.
NextSettings ==
    \/ Next
    \/ \E e \in Entities, spatial \in BOOLEAN :
            /\ world[e].PlaybackSettings /= None
            /\ SetSettings(e, with_spatial(Unwrap(world[e].PlaybackSettings), spatial))

SpecSettings == Init /\ [][NextSettings]_vars

\* Volume levels 0.5, 1.0 and 2.0.
Levels == {Unit \div 2, Unit, 2 * Unit}

Volumes == {Relative(level) : level \in Levels} \cup {Absolute(level) : level \in Levels}

\* Requests played once, plain and spatial, at every volume.
VolumeSettings ==
    {with_spatial(with_volume(Preset("Once"), volume), spatial) :
        volume \in Volumes, spatial \in BOOLEAN}

\* Requests with a volume, under a global volume the application changes.
NextVolume ==
    \/ \E settings \in VolumeSettings : Spawn({"AudioSource"}, settings)
    \/ \E level \in Levels : SetGlobalVolume(level)
    \/ \E T \in SourceTypes : LoadAsset(T)
    \/ \E e \in Entities, sink \in SinkComponents : SinkEmpties(e, sink)
    \/ \E T \in SourceTypes : PlayQueued(T)
    \/ \E T \in SourceTypes : Cleanup(T)
    \/ ApplyDeferred

SpecVolume == Init /\ [][NextVolume]_vars

\* Settings that differ from a preset in every field but the mode.
Custom(mode) ==
    paused(with_speed(with_volume(with_spatial(Preset(mode), TRUE),
                                  Absolute(Unit \div 2)), 2))

\* What the application sets a request to, at spawn and later.
MutableSettings == {Preset("Despawn"), Preset("Remove"), Custom("Loop"), Custom("Once")}

\* Requests whose settings the application rewrites while they play.
NextMutate ==
    \/ \E handles \in HandleSets, settings \in MutableSettings :
            Spawn(handles, settings)
    \/ \E e \in Entities, settings \in MutableSettings : SetSettings(e, settings)
    \/ \E T \in SourceTypes : LoadAsset(T)
    \/ \E e \in Entities, sink \in SinkComponents : SinkEmpties(e, sink)
    \/ \E T \in SourceTypes : PlayQueued(T)
    \/ \E T \in SourceTypes : Cleanup(T)
    \/ ApplyDeferred

SpecMutate == Init /\ [][NextMutate]_vars

\* A transform away from the origin.
EmitterTransform == GlobalTransform(1, Vec3(1, 2, 3))

\* Requests that end with the removal of the audio components.
RemoveSettings == {with_spatial(Preset("Remove"), spatial) : spatial \in BOOLEAN}

\* The settings of a request inserted again, told apart by their speed.
ReAddSettings ==
    {with_speed(Preset("Remove"), 2), with_speed(Preset("Once"), 2),
     with_speed(with_spatial(Preset("Despawn"), TRUE), 2)}

\* Remove requests on entities with a transform, replayed by the application.
NextReplay ==
    \/ \E handles \in HandleSets, settings \in RemoveSettings :
            SpawnAt(handles, settings, Some(EmitterTransform))
    \/ \E e \in Entities, handles \in HandleSets, settings \in ReAddSettings :
            ReAdd(e, handles, settings)
    \/ \E T \in SourceTypes : LoadAsset(T)
    \/ \E e \in Entities, sink \in SinkComponents : SinkEmpties(e, sink)
    \/ \E T \in SourceTypes : PlayQueued(T)
    \/ \E T \in SourceTypes : Cleanup(T)
    \/ ApplyDeferred

SpecReplay == Init /\ [][NextReplay]_vars

\* The build without the audio file formats: add_audio_source::<Pitch> alone.
\* Its four systems are in PostUpdate once each.
SpatialSystems ==
    {"play_queued_audio_system", "cleanup_finished_audio",
     "update_emitter_positions", "update_listener_positions"} \X {"Pitch"}

\* A spatial request, despawned when it ends.
SpatialSettings == with_spatial(Preset("Despawn"), TRUE)

\* Where listeners are: one turned around and moved, one twice as large.
ListenerTransforms == {GlobalTransform(-1, Vec3(0, 0, 1)), GlobalTransform(2, Vec3(1, 0, 0))}

\* The scales the application sets.
Scales == {SpatialScaleDefault, SpatialScale_new_2d(2)}

\* Spatial requests among listeners that come, move and go, under a scale
\* the application changes.
NextListeners ==
    \/ Spawn({"Pitch"}, SpatialSettings)
    \/ \E transform \in ListenerTransforms :
            SpawnListener(Some(transform), SpatialListener_default)
    \/ \E i \in 1..MaxListeners, transform \in ListenerTransforms : MoveListener(i, transform)
    \/ \E i \in 1..MaxListeners : DespawnListener(i)
    \/ \E scale \in Scales : SetSpatialScale(scale)
    \/ LoadAsset("Pitch")
    \/ \E e \in Entities : SinkEmpties(e, "SpatialAudioSink")
    \/ PlayQueued("Pitch")
    \/ Cleanup("Pitch")
    \/ UpdateEmitterPositions("Pitch")
    \/ UpdateListenerPositions("Pitch")
    \/ ApplyAfter(SpatialSystems)

SpecListeners == Init /\ [][NextListeners]_vars

\* A spatial request, stripped when it ends.
EmitterSettings == with_spatial(Preset("Remove"), TRUE)

\* Where emitters are moved to.
EmitterTransforms == {EmitterTransform, GlobalTransform(1, Vec3(0, 1, 0))}

\* Spatial requests on entities with and without a transform, moved by the
\* application, under a scale it changes; no listener.
NextEmitters ==
    \/ \E transform \in {None, Some(EmitterTransform)} :
            SpawnAt({"Pitch"}, EmitterSettings, transform)
    \/ \E e \in Entities, transform \in EmitterTransforms : MoveEmitter(e, transform)
    \/ \E scale \in Scales : SetSpatialScale(scale)
    \/ LoadAsset("Pitch")
    \/ \E e \in Entities : SinkEmpties(e, "SpatialAudioSink")
    \/ PlayQueued("Pitch")
    \/ Cleanup("Pitch")
    \/ UpdateEmitterPositions("Pitch")
    \/ UpdateListenerPositions("Pitch")
    \/ ApplyAfter(SpatialSystems)

SpecEmitters == Init /\ [][NextEmitters]_vars

\* Settings the application takes as they come: the default and the presets.
PresetSettings == {PlaybackSettings_default, ONCE, LOOP, DESPAWN, REMOVE}

\* Requests spawned with the default settings or with a preset.
NextPresets ==
    \/ \E handles \in HandleSets, settings \in PresetSettings :
            Spawn(handles, settings)
    \/ \E T \in SourceTypes : LoadAsset(T)
    \/ \E e \in Entities, sink \in SinkComponents : SinkEmpties(e, sink)
    \/ \E T \in SourceTypes : PlayQueued(T)
    \/ \E T \in SourceTypes : Cleanup(T)
    \/ ApplyDeferred

SpecPresets == Init /\ [][NextPresets]_vars

\* The gaps the application builds listeners with: even, so that the halves
\* are whole.
Gaps == {0, 2, DefaultGap, 6}

\* A listener that sits at the origin, unscaled.
GapTransform == GlobalTransform(1, Vec3ZERO)

\* Spatial requests among listeners of several gaps, and default ones.
NextGaps ==
    \/ Spawn({"Pitch"}, SpatialSettings)
    \/ \E gap \in Gaps : SpawnListener(Some(GapTransform), SpatialListener_new(gap))
    \/ SpawnListener(Some(GapTransform), SpatialListener_default)
    \/ \E i \in 1..MaxListeners : DespawnListener(i)
    \/ LoadAsset("Pitch")
    \/ \E e \in Entities : SinkEmpties(e, "SpatialAudioSink")
    \/ PlayQueued("Pitch")
    \/ Cleanup("Pitch")
    \/ UpdateEmitterPositions("Pitch")
    \/ UpdateListenerPositions("Pitch")
    \/ ApplyAfter(SpatialSystems)

SpecGaps == Init /\ [][NextGaps]_vars

\* A listener turned around, off the plane z = 0.
DepthTransform == GlobalTransform(-1, Vec3(0, 0, 1))

\* Where an emitter is moved to, off the plane too.
DepthMove == GlobalTransform(1, Vec3(0, 1, 2))

\* Spatial requests off the plane z = 0 and listeners off it, under a scale
\* the application changes.
NextScale ==
    \/ SpawnAt({"Pitch"}, EmitterSettings, Some(EmitterTransform))
    \/ \E e \in Entities : MoveEmitter(e, DepthMove)
    \/ SpawnListener(Some(DepthTransform), SpatialListener_default)
    \/ \E scale \in Scales : SetSpatialScale(scale)
    \/ LoadAsset("Pitch")
    \/ \E e \in Entities : SinkEmpties(e, "SpatialAudioSink")
    \/ PlayQueued("Pitch")
    \/ Cleanup("Pitch")
    \/ UpdateEmitterPositions("Pitch")
    \/ UpdateListenerPositions("Pitch")
    \/ ApplyAfter(SpatialSystems)

SpecScale == Init /\ [][NextScale]_vars

\* The build with both source types: add_audio_source puts the four systems
\* in PostUpdate once for each.
AllSystems ==
    {"play_queued_audio_system", "cleanup_finished_audio",
     "update_emitter_positions", "update_listener_positions"} \X SourceTypes

\* Spatial requests with one source handle or two, moved by the application
\* under a scale it changes, in the build with both source types.
NextOrder ==
    \/ \E handles \in HandleSets :
            SpawnAt(handles, EmitterSettings, Some(EmitterTransform))
    \/ \E e \in Entities : MoveEmitter(e, DepthMove)
    \/ \E scale \in Scales : SetSpatialScale(scale)
    \/ \E T \in SourceTypes : LoadAsset(T)
    \/ \E e \in Entities : SinkEmpties(e, "SpatialAudioSink")
    \/ \E T \in SourceTypes : PlayQueued(T)
    \/ \E T \in SourceTypes : Cleanup(T)
    \/ \E T \in SourceTypes : UpdateEmitterPositions(T)
    \/ \E T \in SourceTypes : UpdateListenerPositions(T)
    \/ ApplyAfter(AllSystems)

SpecOrder == Init /\ [][NextOrder]_vars

\* A request of each mode that ends, the last one spatial.
ModeSettings == {Preset("Despawn"), Preset("Remove"), with_spatial(Preset("Once"), TRUE)}

\* Requests whose settings the application rewrites while they play and
\* which it inserts again once they were removed.
NextMarkers ==
    \/ \E handles \in HandleSets, settings \in ModeSettings :
            Spawn(handles, settings)
    \/ \E e \in Entities, settings \in ModeSettings : SetSettings(e, settings)
    \/ \E e \in Entities, settings \in ModeSettings : ReAdd(e, {"AudioSource"}, settings)
    \/ \E T \in SourceTypes : LoadAsset(T)
    \/ \E e \in Entities, sink \in SinkComponents : SinkEmpties(e, sink)
    \/ \E T \in SourceTypes : PlayQueued(T)
    \/ \E T \in SourceTypes : Cleanup(T)
    \/ ApplyDeferred

SpecMarkers == Init /\ [][NextMarkers]_vars

\* Spatial requests among listeners with a GlobalTransform and listeners
\* without one, these with their ears 2 apart.
NextBare ==
    \/ Spawn({"Pitch"}, SpatialSettings)
    \/ SpawnListener(None, SpatialListener_new(2))
    \/ SpawnListener(Some(DepthTransform), SpatialListener_default)
    \/ \E i \in 1..MaxListeners : DespawnListener(i)
    \/ \E scale \in Scales : SetSpatialScale(scale)
    \/ LoadAsset("Pitch")
    \/ \E e \in Entities : SinkEmpties(e, "SpatialAudioSink")
    \/ PlayQueued("Pitch")
    \/ Cleanup("Pitch")
    \/ UpdateEmitterPositions("Pitch")
    \/ UpdateListenerPositions("Pitch")
    \/ ApplyAfter(SpatialSystems)

SpecBare == Init /\ [][NextBare]_vars

\* Requests that end with a despawn or a removal, plain and spatial, whose
\* source handles the application takes away.
NextOrphans ==
    \/ \E handles \in HandleSets, settings \in RemoveSettings \cup {Preset("Despawn")} :
            Spawn(handles, settings)
    \/ \E e \in Entities, T \in SourceTypes : RemoveHandle(e, T)
    \/ \E T \in SourceTypes : LoadAsset(T)
    \/ \E e \in Entities, sink \in SinkComponents : SinkEmpties(e, sink)
    \/ \E T \in SourceTypes : PlayQueued(T)
    \/ \E T \in SourceTypes : Cleanup(T)
    \/ ApplyDeferred

SpecOrphans == Init /\ [][NextOrphans]_vars

\* The values set_progress is called with: from -1/12 to 13/12.
RawProgress == -1..(ProgressUnit + 1)

\* The time a frame takes: up to a second.
Deltas == 1..TimeUnit

\* Loading bars the example drives and other systems set.
NextWidgets ==
    \/ \E w \in Widgets, value \in 0..ProgressUnit : SpawnWidget(w, value)
    \/ \E w \in Widgets, value \in RawProgress : SetProgress(w, value)
    \/ \E delta \in Deltas : UpdateProgressState(delta)
    \/ SetWidgetProgress

SpecWidgets == Init /\ [][NextWidgets]_vars

\* The f32 the application passes for a level: -1.0, 0.5 and 1.0.
RawLevels == {-Unit, Unit \div 2, Unit}

\* Requests whose volumes, and a global volume, come from the constructors,
\* in a build with debug assertions or without, or are written in place.
NextLevels ==
    \/ \E raw \in RawLevels, debug_assertions \in BOOLEAN :
            \/ SpawnWithVolume(Volume_new_relative(raw, debug_assertions))
            \/ SpawnWithVolume(Volume_new_absolute(raw, debug_assertions))
            \/ InsertGlobalVolume(GlobalVolume_new(raw, debug_assertions))
    \/ \E e \in Entities, raw \in RawLevels : DerefMutLevel(e, raw)
    \/ \E T \in SourceTypes : LoadAsset(T)
    \/ \E e \in Entities, sink \in SinkComponents : SinkEmpties(e, sink)
    \/ \E T \in SourceTypes : PlayQueued(T)
    \/ \E T \in SourceTypes : Cleanup(T)
    \/ ApplyDeferred

SpecLevels == Init /\ [][NextLevels]_vars

\* ----------------------------------------------------------------- claims
HasSink(e) == world[e].AudioSink /= None \/ world[e].SpatialAudioSink /= None

Requested(e) == world[e].alive /\ world[e].PlaybackSettings /= None

Settings(e) == Unwrap(world[e].PlaybackSettings)

\* Some asset the entity has a handle to is loaded.
SourceReady(e) == \E T \in world[e].Handle : audio_sources[T]

\* The step that ends PostUpdate and applies the commands.
ApplyStep == ran = Systems /\ ran' = {}

PlaySystemRanFor(e) ==
    \E T \in world[e].Handle :
        audio_sources[T] /\ <<"play_queued_audio_system", T>> \in ran

\* C1: while an entity carries a sink, no step queues another insert of a
\* sink for it: a sink is created at most once per request.
C1_SinkCreatedOnce ==
    [][\A e \in Entities :
          HasSink(e) =>
              Cardinality(SinkCommands(commands', e))
                  <= Cardinality(SinkCommands(commands, e))]_vars

\* An entity with a sink and a loaded source, after the orchestrator ran again.
C1_Witness ==
    \E e \in Entities :
        Requested(e) /\ HasSink(e) /\ stream_handle /\ PlaySystemRanFor(e)

\* C2: at most one reaping command (despawn or strip) is ever queued for an
\* entity whose sink has finished.
C2_ExactlyOneReap ==
    \A e \in Entities : Cardinality(ReapCommands(commands, e)) <= 1

\* C3: no entity carries an AudioSink and a SpatialAudioSink at once.
C3_AtMostOneSink ==
    \A e \in Entities :
        ~(world[e].AudioSink /= None /\ world[e].SpatialAudioSink /= None)

\* A spatial sink on a request whose settings were switched to non-spatial,
\* after the orchestrator ran again with the source loaded.
C3_Witness ==
    \E e \in Entities :
        /\ Requested(e)
        /\ world[e].SpatialAudioSink /= None
        /\ ~Settings(e).spatial
        /\ stream_handle
        /\ PlaySystemRanFor(e)

\* The sink component of the settings' kind, and not the other one.
SinkOfKind(ent, spatial) ==
    IF spatial
    THEN ent.SpatialAudioSink /= None /\ ent.AudioSink = None
    ELSE ent.AudioSink /= None /\ ent.SpatialAudioSink = None

\* C4 as stated: every request without a sink whose source is ready has,
\* after the pass (run with a device) and its commands, the one sink of its
\* kind.
C4_Original ==
    [][ApplyStep =>
          \A e \in Entities :
              (Requested(e) /\ ~HasSink(e) /\ stream_handle /\ SourceReady(e))
                  => SinkOfKind(world'[e], Settings(e).spatial)]_vars

\* The open of a sink for e succeeded in this run of PostUpdate.
OpenSucceeded(e) ==
    /\ stream_handle
    /\ \E T \in world[e].Handle : audio_sources[T] /\ <<e, T>> \notin warned

\* C4, amended: every request without a sink whose source is ready, when a
\* device is available and the open of the sink succeeds, has after the pass
\* and its commands the one sink of its kind and not the other.
C4_SinkOfKind ==
    [][ApplyStep =>
          \A e \in Entities :
              (Requested(e) /\ ~HasSink(e) /\ OpenSucceeded(e))
                  => SinkOfKind(world'[e], Settings(e).spatial)]_vars

\* A spatial request that got its SpatialAudioSink.
C4_Witness ==
    \E e \in Entities :
        /\ Requested(e)
        /\ Settings(e).spatial
        /\ InUpdate
        /\ SinkOfKind(world[e], TRUE)

Markers == {"PlaybackDespawnMarker", "PlaybackRemoveMarker"}

\* C5: a request with mode Loop gets a sink fed with infinite repetition
\* and no marker, its sink never reports empty and no reaping command is
\* ever queued for it; every other mode feeds the stream once.
C5_LoopNeverReaped ==
    /\ \A e \in Entities :
          Requested(e) =>
              /\ \A sink \in SinkComponents :
                    world[e][sink] /= None =>
                        (Unwrap(world[e][sink]).looped <=> Settings(e).mode = "Loop")
              /\ Settings(e).mode = "Loop" =>
                    /\ ~world[e].PlaybackDespawnMarker
                    /\ ~world[e].PlaybackRemoveMarker
                    /\ ReapCommands(commands, e) = {}
                    /\ \A sink \in SinkComponents :
                          world[e][sink] /= None => ~Unwrap(world[e][sink]).empty
    /\ \A i \in DOMAIN commands :
          commands[i].op = "insert" =>
              (Unwrap(commands[i].sink).looped
                  <=> Settings(commands[i].entity).mode = "Loop")

\* A looping request with its sink, after the reaper of its source type ran.
C5_Witness ==
    \E e \in Entities :
        /\ Requested(e)
        /\ Settings(e).mode = "Loop"
        /\ HasSink(e)
        /\ \E T \in world[e].Handle : <<"cleanup_finished_audio", T>> \in ran

\* C6 as stated: a request without a sink has one after the pass (run with
\* a device) exactly when its source asset is ready.
C6_Original ==
    [][ApplyStep =>
          \A e \in Entities :
              (Requested(e) /\ ~HasSink(e) /\ stream_handle)
                  => (HasSink(e)' <=> SourceReady(e))]_vars

\* C6, amended: while the source asset is not ready the pass leaves the
\* entity as it is, and the entity gets its sink in the first frame in which
\* the asset is ready, a device is available and the open succeeds.
C6_SinkWhenReady ==
    [][ApplyStep =>
          \A e \in Entities :
              (Requested(e) /\ ~HasSink(e)) =>
                  /\ HasSink(e)' <=> OpenSucceeded(e)
                  /\ ~SourceReady(e) =>
                        /\ world'[e] = world[e]
                        /\ \A i \in DOMAIN commands : commands[i].entity /= e]_vars

\* A request whose asset is not loaded, after the orchestrator ran.
C6_Witness ==
    \E e \in Entities :
        /\ Requested(e)
        /\ ~HasSink(e)
        /\ ~SourceReady(e)
        /\ stream_handle
        /\ \A T \in world[e].Handle : <<"play_queued_audio_system", T>> \in ran

\* C7: without an audio device nothing is queued, no entity gets a sink or a
\* marker, and every spawned request stays as it was spawned.
C7_NoDeviceNoOp ==
    ~stream_handle =>
        /\ commands = <<>>
        /\ warned = {}
        /\ \A e \in Entities :
              /\ ~HasSink(e)
              /\ ~world[e].PlaybackDespawnMarker
              /\ ~world[e].PlaybackRemoveMarker
              /\ e <= spawned => (Requested(e) /\ world[e].Handle /= {})

\* No device, a request with a loaded source, and every system has had its turn.
C7_Witness ==
    /\ ~stream_handle
    /\ ran = Systems
    /\ \E e \in Entities : Requested(e) /\ SourceReady(e)

\* Every open attempted for e in this run failed, and at least one was.
OpenFailed(e) ==
    /\ \E T \in world[e].Handle : <<e, T>> \in warned
    /\ \A T \in world[e].Handle : audio_sources[T] => <<e, T>> \in warned

\* C8: an entity whose open failed is left exactly as it was, without sink
\* or marker, and is selected again by the next pass; an entity with one
\* successful open gets its sink.
C8_FailedOpenRetried ==
    [][ApplyStep =>
          \A e \in Entities :
              (Requested(e) /\ ~HasSink(e)) =>
                  /\ OpenFailed(e) =>
                        /\ world'[e] = world[e]
                        /\ ~world'[e].PlaybackDespawnMarker
                        /\ ~world'[e].PlaybackRemoveMarker
                        /\ \A T \in world[e].Handle : e \in QueryNonplaying(T)'
                  /\ (\E T \in world[e].Handle : <<e, T>> \in warned)
                        /\ OpenSucceeded(e) => HasSink(e)']_vars

\* The open failed for a request with a marker mode, at the end of the run.
C8_Witness ==
    \E e \in Entities :
        /\ Requested(e)
        /\ Settings(e).mode \in {"Despawn", "Remove"}
        /\ OpenFailed(e)
        /\ ran = Systems

\* C9: the volume of a sink at creation is level x GlobalVolume for a
\* Relative volume and level itself for an Absolute one.
C9_VolumeAtCreation ==
    [][\A i \in DOMAIN commands' \ DOMAIN commands :
          commands'[i].op = "insert" =>
              LET volume == Settings(commands'[i].entity).volume
                  sink == Unwrap(commands'[i].sink)
              IN  sink.volume =
                      IF volume.kind = "Relative"
                      THEN volume.level * global_volume
                      ELSE volume.level * Unit]_vars

\* Relative(0.5) under GlobalVolume 2.0 gave a sink of volume 1.0.
C9_Witness ==
    \E i \in DOMAIN commands :
        /\ commands[i].op = "insert"
        /\ Settings(commands[i].entity).volume.kind = "Relative"
        /\ 2 * Settings(commands[i].entity).volume.level = Unit
        /\ global_volume = 2 * Unit
        /\ Unwrap(commands[i].sink).volume = Unit * Unit

\* C10: the volume of a sink that stays attached never changes, whatever
\* happens to GlobalVolume; a sink queued in a step has the volume of the
\* GlobalVolume of that step.
C10_VolumeCaptured ==
    [][/\ \A e \in Entities, sink \in SinkComponents :
             (world[e][sink] /= None /\ world'[e][sink] /= None) =>
                 Unwrap(world'[e][sink]).volume = Unwrap(world[e][sink]).volume
       /\ \A i \in DOMAIN commands' \ DOMAIN commands :
             (commands'[i].op = "insert"
                 /\ Settings(commands'[i].entity).volume.kind = "Relative") =>
                 Unwrap(commands'[i].sink).volume
                     = Settings(commands'[i].entity).volume.level * global_volume']_vars

\* A sink whose volume is no longer level x GlobalVolume, after a whole
\* run of the systems under the new GlobalVolume.
C10_Witness ==
    \E e \in Entities, sink \in SinkComponents :
        /\ Requested(e)
        /\ world[e][sink] /= None
        /\ Settings(e).volume.kind = "Relative"
        /\ Unwrap(world[e][sink]).volume /= Settings(e).volume.level * global_volume
        /\ ran = Systems

\* What of a sink is set at its creation.
Created(sink) ==
    [speed |-> sink.speed, volume |-> sink.volume,
     paused |-> sink.paused, looped |-> sink.looped]

\* C11: whatever is written to PlaybackSettings while a sink is attached,
\* no sink is queued for the entity and, as long as the sink stays attached,
\* its speed, volume, paused state and kind and the markers stay as they are.
C11_SettingsNotReapplied ==
    [][\A e \in Entities, sink \in SinkComponents :
          world[e][sink] /= None =>
              /\ Cardinality(SinkCommands(commands', e))
                     <= Cardinality(SinkCommands(commands, e))
              /\ world'[e][sink] /= None =>
                    /\ Created(Unwrap(world'[e][sink])) = Created(Unwrap(world[e][sink]))
                    /\ \A other \in SinkComponents \ {sink} : world'[e][other] = None
                    /\ world'[e].PlaybackDespawnMarker = world[e].PlaybackDespawnMarker
                    /\ world'[e].PlaybackRemoveMarker = world[e].PlaybackRemoveMarker]_vars

\* A plain, running sink of a Despawn request whose settings now ask for a
\* paused, spatial loop at another speed, after the orchestrator ran again.
C11_Witness ==
    \E e \in Entities :
        /\ Requested(e)
        /\ world[e].AudioSink /= None
        /\ world[e].PlaybackDespawnMarker
        /\ Settings(e) = Custom("Loop")
        /\ ~Unwrap(world[e].AudioSink).paused
        /\ Unwrap(world[e].AudioSink).speed /= Settings(e).speed
        /\ stream_handle
        /\ PlaySystemRanFor(e)

\* The sweep of source type T runs in this step.
SweepStep(T) ==
    /\ <<"cleanup_finished_audio", T>> \notin ran
    /\ <<"cleanup_finished_audio", T>> \in ran'

\* e carries Handle<T>, the marker and a sink that reports empty.
FinishedWith(e, T, marker) ==
    /\ world[e].alive
    /\ T \in world[e].Handle
    /\ world[e][marker]
    /\ \E sink \in SinkComponents : world[e][sink] /= None /\ Finished(e, sink)

\* The queue holds a command of this kind for e.
Queued(queue, e, op) == \E i \in DOMAIN queue : queue[i].entity = e /\ queue[i].op = op

C15_OnceNeverReaped ==
    [][\A e \in Entities :
          (Requested(e) /\ Settings(e).mode = "Once") =>
              /\ ~world[e].PlaybackDespawnMarker
              /\ ~world[e].PlaybackRemoveMarker
              /\ ReapCommands(commands', e) = {}
              /\ \A sink \in SinkComponents :
                    world[e][sink] /= None =>
                        /\ Requested(e)'
                        /\ world'[e][sink] /= None
                        /\ Finished(e, sink) => world'[e] = world[e]
                        /\ SinkCommands(commands', e) = {}]_vars

\* Both sweeps have passed over a Once request whose sink has finished.
C15_Witness ==
    \E e \in Entities :
        /\ Requested(e)
        /\ Settings(e).mode = "Once"
        /\ world[e].AudioSink /= None
        /\ Finished(e, "AudioSink")
        /\ stream_handle
        /\ \A T \in world[e].Handle : <<"cleanup_finished_audio", T>> \in ran

\* The markers an entity carries.
MarkersOf(ent) == {marker \in Markers : ent[marker]}

\* The set of markers holds the Despawn marker iff the mode is Despawn and
\* the Remove marker iff the mode is Remove.
MatchesMode(markers, mode) ==
    /\ "PlaybackDespawnMarker" \in markers <=> mode = "Despawn"
    /\ "PlaybackRemoveMarker" \in markers <=> mode = "Remove"

\* C16: every queued insert carries a sink together with exactly the marker
\* of the mode of the request, an entity with a sink carries exactly the
\* marker of its mode, and an entity without a sink carries no marker.
C16_MarkerWithSink ==
    /\ \A i \in DOMAIN commands :
          commands[i].op = "insert" =>
              /\ commands[i].sink /= None
              /\ commands[i].components \cap SinkComponents /= {}
              /\ Requested(commands[i].entity) =>
                    MatchesMode(commands[i].components,
                                Settings(commands[i].entity).mode)
    /\ \A e \in Entities :
          /\ (Requested(e) /\ HasSink(e)) => MatchesMode(MarkersOf(world[e]), Settings(e).mode)
          /\ ~HasSink(e) => MarkersOf(world[e]) = {}

\* A Remove request plays: it got its sink and its marker.
C16_Witness ==
    \E e \in Entities :
        /\ Requested(e)
        /\ Settings(e).mode = "Remove"
        /\ HasSink(e)
        /\ MarkersOf(world[e]) = {"PlaybackRemoveMarker"}
        /\ commands = <<>>

\* C18 as stated: in one frame at most one insert of a sink is queued for an
\* entity.
C18_OneCreationPerFrame ==
    \A e \in Entities : Cardinality(SinkCommands(commands, e)) <= 1

\* The source types whose handle a queued remove command strips from e.
Stripped(queue, e) ==
    {T \in SourceTypes :
        \E i \in DOMAIN queue :
            queue[i].entity = e /\ queue[i].op = "remove" /\ T \in queue[i].components}

\* C12: the sweep that finds the sink of a Remove-marked entity empty queues
\* the removal of its handle, settings, sink and marker; when the commands
\* are applied the entity stays, without settings, sink, marker and the
\* handles swept, its transform as it was; and no sink is queued or attached
\* while it has no request.
C12_RemoveReaped ==
    [][\A e \in Entities :
          /\ \A T \in SourceTypes :
                (SweepStep(T) /\ stream_handle /\ FinishedWith(e, T, "PlaybackRemoveMarker"))
                    => T \in Stripped(commands', e)
          /\ (ApplyStep /\ Queued(commands, e, "remove")) =>
                /\ world'[e].alive
                /\ world'[e].PlaybackSettings = None
                /\ ~HasSink(e)'
                /\ MarkersOf(world'[e]) = {}
                /\ world'[e].Handle = world[e].Handle \ Stripped(commands, e)
                /\ world'[e].GlobalTransform = world[e].GlobalTransform
          /\ (world[e].alive /\ ~Requested(e)) =>
                /\ SinkCommands(commands', e) = {}
                /\ (~HasSink(e) /\ ~Requested(e)') => ~HasSink(e)']_vars

\* A stripped entity, its transform still there, after a frame in which the
\* orchestrators ran with their assets loaded.
C12_Witness ==
    \E e \in Entities :
        /\ world[e].alive
        /\ ~Requested(e)
        /\ ~HasSink(e)
        /\ world[e].GlobalTransform = Some(EmitterTransform)
        /\ stream_handle
        /\ \A T \in SourceTypes : audio_sources[T]
        /\ ran = Systems

\* The request of e was inserted again after a reaping.
ReAdded(e) == Requested(e) /\ Settings(e) \in ReAddSettings

\* The entity has the fresh sink of its settings, with the marker of their
\* mode only, and still its request.
FreshlyPlayed(e) ==
    /\ SinkOfKind(world'[e], Settings(e).spatial)
    /\ \E T \in world[e].Handle :
            world'[e][SinkComponent(Settings(e))] = Some(FreshSink(e, Settings(e), T))
    /\ MatchesMode(MarkersOf(world'[e]), Settings(e).mode)
    /\ world'[e].PlaybackSettings = world[e].PlaybackSettings
    /\ world'[e].Handle = world[e].Handle

\* C14 as stated: a request inserted again whose asset is ready has, after the
\* next pass (run with a device) and its commands, a fresh sink with the
\* marker of the new mode.
C14_Original ==
    [][ApplyStep =>
          \A e \in Entities :
              (ReAdded(e) /\ ~HasSink(e) /\ stream_handle /\ SourceReady(e))
                  => FreshlyPlayed(e)]_vars

\* C14, amended: a request inserted again whose asset is ready has, after the
\* next pass in which a device is available and the open of the sink
\* succeeds, a fresh sink with the marker of the new mode and nothing of the
\* playback before.
C14_FreshSinkAfterReAdd ==
    [][ApplyStep =>
          \A e \in Entities :
              (ReAdded(e) /\ ~HasSink(e) /\ OpenSucceeded(e))
                  => FreshlyPlayed(e)]_vars

\* A request inserted again with mode Once plays: a running sink, no marker.
C14_Witness ==
    \E e \in Entities :
        /\ ReAdded(e)
        /\ Settings(e).mode = "Once"
        /\ world[e].AudioSink /= None
        /\ ~Finished(e, "AudioSink")
        /\ MarkersOf(world[e]) = {}

\* The components an entity has.
Components(ent) ==
    {c \in {"PlaybackSettings", "GlobalTransform", "AudioSink", "SpatialAudioSink"} :
        ent[c] /= None}
    \cup MarkersOf(ent) \cup ent.Handle \cup (IF ent.alive THEN {"Entity"} ELSE {})

Ran(system) == <<system, "Pitch">> \in ran

PlayStep(T) ==
    /\ <<"play_queued_audio_system", T>> \notin ran
    /\ <<"play_queued_audio_system", T>> \in ran'

\* The spatial sinks this step queues for insertion.
NewSpatialSinks ==
    {Unwrap(commands'[i].sink) : i \in
        {j \in DOMAIN commands' \ DOMAIN commands :
            commands'[j].op = "insert" /\ "SpatialAudioSink" \in commands'[j].components}}

\* C19: a spatial sink created while there is no listener has its left ear
\* at (-2, 0, 0) and its right ear at (2, 0, 0), each multiplied per axis by
\* the spatial scale.
C19_DefaultEars ==
    [][(listeners = <<>> /\ \E T \in SourceTypes : PlayStep(T)) =>
          \A sink \in NewSpatialSinks :
              /\ sink.left_ear = Vec3Mul(Vec3(-2, 0, 0), spatial_scale)
              /\ sink.right_ear = Vec3Mul(Vec3(2, 0, 0), spatial_scale)]_vars

\* A spatial sink is queued with the default ears under the scale (2, 2, 0),
\* no listener being there.
C19_Witness ==
    /\ listeners = <<>>
    /\ spatial_scale = SpatialScale_new_2d(2)
    /\ \E i \in DOMAIN commands :
          /\ commands[i].op = "insert"
          /\ Unwrap(commands[i].sink).left_ear = Vec3(-4, 0, 0)
          /\ Unwrap(commands[i].sink).right_ear = Vec3(4, 0, 0)

\* The ears of the listener created first.
FirstCreatedEars ==
    EarsOf(Unwrap(listeners[1].GlobalTransform), listeners[1].SpatialListener)

\* update_listener_positions runs in this step and does not return early.
ListenerSyncStep ==
    /\ ~Ran("update_listener_positions")
    /\ Ran("update_listener_positions")'
    /\ stream_handle
    /\ scale_changed \/ ~changed_listener_is_empty

NewInserts ==
    {j \in DOMAIN commands' \ DOMAIN commands : commands'[j].op = "insert"}

\* e is a spatial request without a sink and without a GlobalTransform.
SpatialWithoutTransform(e) ==
    /\ Requested(e)
    /\ ~HasSink(e)
    /\ Settings(e).spatial
    /\ world[e].GlobalTransform = None

\* C21: the orchestrator, when the asset is ready and the open succeeds,
\* queues for a spatial request without a GlobalTransform a spatial sink
\* with the emitter at (0, 0, 0) under any scale, set up from the settings as
\* any other and with the marker of its mode.
C21_NoTransformAtOrigin ==
    [][\A e \in Entities :
          (PlayStep("Pitch") /\ SpatialWithoutTransform(e)) =>
              /\ (stream_handle /\ audio_sources["Pitch"] /\ <<e, "Pitch">> \notin warned')
                    => \E i \in NewInserts : commands'[i].entity = e
              /\ \A i \in NewInserts :
                    commands'[i].entity = e =>
                        /\ "SpatialAudioSink" \in commands'[i].components
                        /\ "AudioSink" \notin commands'[i].components
                        /\ MatchesMode(commands'[i].components, Settings(e).mode)
                        /\ Unwrap(commands'[i].sink).emitter = Vec3(0, 0, 0)
                        /\ Created(Unwrap(commands'[i].sink))
                              = Created(NewSink(Settings(e), global_volume, "Pitch"))
                        /\ ~Unwrap(commands'[i].sink).empty]_vars

\* A Remove request without a transform plays under the scale (2, 2, 0), its
\* emitter at the origin, with its marker.
C21_Witness ==
    \E e \in Entities :
        /\ world[e].GlobalTransform = None
        /\ world[e].SpatialAudioSink /= None
        /\ Unwrap(world[e].SpatialAudioSink).emitter = Vec3(0, 0, 0)
        /\ world[e].PlaybackRemoveMarker
        /\ spatial_scale = SpatialScale_new_2d(2)
        /\ ~scale_changed

\* C22: whether there is a stream handle is settled at initialization: no
\* step of a system, of the application or of the backend changes it.
C22_DeviceNeverMutated == [][stream_handle' = stream_handle]_vars

\* With a device, all four systems have run in a frame in which an open
\* failed.
C22_Witness ==
    /\ stream_handle
    /\ ran = SpatialSystems
    /\ warned /= {}
    /\ spawned > 0

\* update_emitter_positions runs in this step, with a device.
EmitterSyncStep ==
    /\ ~Ran("update_emitter_positions")
    /\ Ran("update_emitter_positions")'
    /\ stream_handle

\* The translation of the transform of e, each axis multiplied by the scale.
ScaledTranslation(e) ==
    LET t == Unwrap(world[e].GlobalTransform).translation
    IN  <<t[1] * spatial_scale[1], t[2] * spatial_scale[2], t[3] * spatial_scale[3]>>

\* C23: the run of update_emitter_positions of a frame gives the spatial sink
\* of every entity whose GlobalTransform was written since its last run the
\* translation of the entity multiplied per axis by the scale, and once it
\* has run in a frame no written transform is left unseen.
C23_EmitterSync ==
    [][/\ EmitterSyncStep =>
            \A e \in emitter_changed :
                (world[e].alive /\ world[e].GlobalTransform /= None
                    /\ world[e].SpatialAudioSink /= None)
                    => Unwrap(world'[e].SpatialAudioSink).emitter = ScaledTranslation(e)
       /\ (Ran("update_emitter_positions")' /\ stream_handle) => emitter_changed' = {}]_vars

\* A playing entity was moved to (0, 1, 0) under the scale (2, 2, 0) and
\* update_emitter_positions, the first system of the frame, has put its
\* sink at (0, 2, 0).
C23_Witness ==
    \E e \in Entities :
        /\ ran = {<<"update_emitter_positions", "Pitch">>}
        /\ world[e].SpatialAudioSink /= None
        /\ world[e].GlobalTransform = Some(GlobalTransform(1, Vec3(0, 1, 0)))
        /\ spatial_scale = SpatialScale_new_2d(2)
        /\ Unwrap(world[e].SpatialAudioSink).emitter = Vec3(0, 2, 0)
        /\ Unwrap(world[e].SpatialAudioSink).left_ear = Vec3(-2, 0, 0)

\* The ear positions a spatial sink holds.
Ears(sink) == <<sink.left_ear, sink.right_ear>>

\* The default ears under the scale.
DefaultEars ==
    <<Vec3Mul(Vec3(-2, 0, 0), spatial_scale), Vec3Mul(Vec3(2, 0, 0), spatial_scale)>>

\* C24: the ears of an attached spatial sink change only in the run of
\* update_listener_positions of a frame in which the scale or a listener was
\* written since its last run; that run gives every spatial sink the ears of
\* the first listener, or the default ears when there is none.
C24_ListenerSync ==
    [][\A e \in Entities :
          (world[e].SpatialAudioSink /= None /\ world'[e].SpatialAudioSink /= None) =>
              /\ Ears(Unwrap(world'[e].SpatialAudioSink)) /= Ears(Unwrap(world[e].SpatialAudioSink))
                    => ListenerSyncStep
              /\ ListenerSyncStep =>
                    Ears(Unwrap(world'[e].SpatialAudioSink))
                        = IF listeners /= <<>> THEN FirstCreatedEars ELSE DefaultEars]_vars

\* The only listener was despawned, nothing else was written, and
\* update_listener_positions has run: the sink keeps the ears it had.
C24_Witness ==
    \E e \in Entities :
        /\ listeners = <<>>
        /\ ~scale_changed
        /\ stream_handle
        /\ Ran("update_listener_positions")
        /\ world[e].SpatialAudioSink /= None
        /\ Ears(Unwrap(world[e].SpatialAudioSink)) /= DefaultEars

\* One of the two position systems runs in this step.
PositionSyncStep ==
    \E system \in {"update_emitter_positions", "update_listener_positions"} :
        ~Ran(system) /\ Ran(system)'

\* A sink but for the positions it holds.
WithoutPositions(sink) ==
    [speed |-> sink.speed, volume |-> sink.volume, paused |-> sink.paused,
     looped |-> sink.looped, empty |-> sink.empty]

\* C25: a run of update_emitter_positions or update_listener_positions
\* queues no command and leaves every entity with the components it has:
\* the same entities alive, the same sinks but for their positions, the same
\* markers, requests and transforms.
C25_SyncKeepsSinks ==
    [][PositionSyncStep =>
          /\ commands' = commands
          /\ \A e \in Entities :
                /\ Components(world'[e]) = Components(world[e])
                /\ world'[e].AudioSink = world[e].AudioSink
                /\ world'[e].PlaybackSettings = world[e].PlaybackSettings
                /\ world'[e].GlobalTransform = world[e].GlobalTransform
                /\ world[e].SpatialAudioSink /= None =>
                      WithoutPositions(Unwrap(world'[e].SpatialAudioSink))
                          = WithoutPositions(Unwrap(world[e].SpatialAudioSink))]_vars

\* Both position systems have run on a playing sink after a move and a
\* change of scale: the sink is at (0, 2, 0) with ears at x = -4 and 4, and
\* still has its marker.
C25_Witness ==
    \E e \in Entities :
        /\ ran = {"update_emitter_positions", "update_listener_positions"} \X {"Pitch"}
        /\ world[e].SpatialAudioSink /= None
        /\ world[e].PlaybackRemoveMarker
        /\ Unwrap(world[e].SpatialAudioSink).emitter = Vec3(0, 2, 0)
        /\ Ears(Unwrap(world[e].SpatialAudioSink)) = <<Vec3(-4, 0, 0), Vec3(4, 0, 0)>>

\* The place of a call in the setup of a sink, 0 when it was not made.
Place(sink, op) ==
    IF \E i \in DOMAIN sink.setup : sink.setup[i] = op
    THEN CHOOSE i \in DOMAIN sink.setup : sink.setup[i] = op
    ELSE 0

\* The sinks there are: attached, or queued for insertion.
AllSinks ==
    UNION ({world[e][sink] : e \in Entities, sink \in SinkComponents}
           \cup {commands[i].sink : i \in DOMAIN commands})

\* C26: on every sink the speed was set first, then the volume, then the
\* sink was paused if the settings say so, and the source was appended last;
\* a sink created paused has not played and its stream does not end.
C26_SettingsBeforeStream ==
    \A sink \in AllSinks :
        /\ Place(sink, "set_speed") = 1
        /\ Place(sink, "set_volume") = 2
        /\ Place(sink, "append") = Len(sink.setup)
        /\ sink.paused <=> Place(sink, "pause") = 3
        /\ sink.paused => (~sink.started /\ ~sink.empty)

\* A request created paused at speed 2 stays as it was made over a frame.
C26_Witness ==
    \E e \in Entities :
        /\ world[e].SpatialAudioSink /= None
        /\ Unwrap(world[e].SpatialAudioSink).paused
        /\ Unwrap(world[e].SpatialAudioSink).speed = 2
        /\ Unwrap(world[e].SpatialAudioSink).setup = <<"set_speed", "set_volume", "pause", "append">>
        /\ ran = Systems

\* C27 as stated: the global volume, the level of every request and the
\* volume of every sink are not negative.
C27_LevelsNonNegative ==
    /\ global_volume >= 0
    /\ \A e \in Entities : Requested(e) => Settings(e).volume.level >= 0
    /\ \A sink \in AllSinks : sink.volume >= 0

\* C28: PlaybackSettings::default() is ONCE; ONCE, LOOP, DESPAWN and REMOVE
\* carry the mode of their name and, that apart, volume Relative(1.0), speed
\* 1.0, paused = false and spatial = false; so does every request spawned with
\* one of them, and its sink is a plain one at speed 1, not paused, at the
\* global volume.
C28_PresetsDifferOnlyInMode ==
    /\ PlaybackSettings_default = ONCE
    /\ ONCE.mode = "Once" /\ LOOP.mode = "Loop"
    /\ DESPAWN.mode = "Despawn" /\ REMOVE.mode = "Remove"
    /\ \A preset \in {ONCE, LOOP, DESPAWN, REMOVE} :
            /\ preset.volume = [kind |-> "Relative", level |-> Unit]
            /\ preset.speed = 1
            /\ preset.paused = FALSE
            /\ preset.spatial = FALSE
            /\ DOMAIN preset = {"mode", "volume", "speed", "paused", "spatial"}
    /\ \A e \in Entities : Requested(e) =>
            /\ [Settings(e) EXCEPT !.mode = "Once"] = PlaybackSettings_default
            /\ world[e].SpatialAudioSink = None
            /\ \A sink \in world[e].AudioSink :
                    /\ sink.speed = 1
                    /\ ~sink.paused
                    /\ sink.volume = Unit * global_volume

\* A request spawned with LOOP is playing, and so may one spawned with the
\* default be.
C28_Witness ==
    \E e \in Entities :
        /\ Requested(e)
        /\ Settings(e) = LOOP
        /\ world[e].AudioSink /= None

\* C29: SpatialListener::new(gap) puts the left ear at (-gap/2, 0, 0) and the
\* right ear at (gap/2, 0, 0): the left is the right negated and they are gap
\* apart; the default listener is the one of gap 4.  So are the offsets of
\* every listener built with it, and the ears of every spatial sink that took
\* them from a listener at the origin or from the default.
C29_EarsSymmetric ==
    /\ \A gap \in Gaps :
            /\ SpatialListener_new(gap).left_ear_offset = <<-(gap \div 2), 0, 0>>
            /\ SpatialListener_new(gap).right_ear_offset = <<gap \div 2, 0, 0>>
            /\ 2 * (gap \div 2) = gap
    /\ SpatialListener_default.left_ear_offset = <<-2, 0, 0>>
    /\ SpatialListener_default.right_ear_offset = <<2, 0, 0>>
    /\ \A i \in DOMAIN listeners :
            LET left == listeners[i].SpatialListener.left_ear_offset
                right == listeners[i].SpatialListener.right_ear_offset
            IN  /\ left = <<-right[1], -right[2], -right[3]>>
                /\ right[2] = 0 /\ right[3] = 0
                /\ right[1] - left[1] \in Gaps
    /\ \A e \in Entities : \A sink \in world[e].SpatialAudioSink :
            /\ sink.left_ear = <<-sink.right_ear[1], 0, 0>>
            /\ sink.right_ear[1] - sink.left_ear[1] \in Gaps

\* A spatial sink holds the ears of a listener of gap 6, and there is a
\* listener of gap 2.
C29_Witness ==
    /\ \E e \in Entities : \E sink \in world[e].SpatialAudioSink :
            sink.right_ear[1] - sink.left_ear[1] = 6
    /\ \E i \in DOMAIN listeners :
            listeners[i].SpatialListener.right_ear_offset = <<1, 0, 0>>

\* The positions a spatial sink holds.
Positions(sink) == <<sink.emitter, sink.left_ear, sink.right_ear>>

\* The spatial sinks a step hands positions to, each with what it hands: the
\* sinks the orchestrator creates, the sinks whose emitter
\* update_emitter_positions sets, the sinks whose ears
\* update_listener_positions sets.
Handed ==
    (IF PlayStep("Pitch") THEN UNION {{sink.emitter, sink.left_ear, sink.right_ear} :
                                        sink \in NewSpatialSinks}
     ELSE {})
    \cup (IF EmitterSyncStep
          THEN {Unwrap(world'[e].SpatialAudioSink).emitter :
                    e \in {x \in emitter_changed :
                            /\ world[x].GlobalTransform /= None
                            /\ world[x].SpatialAudioSink /= None}}
          ELSE {})
    \cup (IF ListenerSyncStep
          THEN UNION {{Unwrap(world'[e].SpatialAudioSink).left_ear,
                       Unwrap(world'[e].SpatialAudioSink).right_ear} :
                        e \in {x \in Entities : world[x].SpatialAudioSink /= None}}
          ELSE {})

\* The positions before the scale is applied: the translation of the entity
\* (the origin without a transform) and the ears of the first listener, or
\* the default ones.
Unscaled(e) ==
    <<IF world[e].GlobalTransform /= None
      THEN Unwrap(world[e].GlobalTransform).translation ELSE <<0, 0, 0>>,
      IF listeners /= <<>>
      THEN transform_point(Unwrap(listeners[1].GlobalTransform),
                           listeners[1].SpatialListener.left_ear_offset)
      ELSE <<-2, 0, 0>>,
      IF listeners /= <<>>
      THEN transform_point(Unwrap(listeners[1].GlobalTransform),
                           listeners[1].SpatialListener.right_ear_offset)
      ELSE <<2, 0, 0>>>>

\* C30: while the scale is one built by SpatialScale::new_2d, every position a
\* step hands to a spatial sink (emitter and ears of a sink it creates, the
\* emitter update_emitter_positions sets, the ears update_listener_positions
\* sets) has z = 0; while the scale is the default one, the positions handed are
\* the unscaled ones.
C30_Depth ==
    [][/\ spatial_scale \in {SpatialScale_new_2d(scale) : scale \in 1..2} =>
            \A position \in Handed : position[3] = 0
       /\ spatial_scale = SpatialScaleDefault =>
            /\ PlayStep("Pitch") =>
                  \A i \in NewInserts :
                      Positions(Unwrap(commands'[i].sink)) = Unscaled(commands'[i].entity)
            /\ EmitterSyncStep =>
                  \A e \in emitter_changed :
                      (world[e].GlobalTransform /= None /\ world[e].SpatialAudioSink /= None)
                          => Unwrap(world'[e].SpatialAudioSink).emitter = Unscaled(e)[1]
            /\ ListenerSyncStep =>
                  \A e \in Entities :
                      world[e].SpatialAudioSink /= None =>
                          /\ Unwrap(world'[e].SpatialAudioSink).left_ear = Unscaled(e)[2]
                          /\ Unwrap(world'[e].SpatialAudioSink).right_ear = Unscaled(e)[3]]_vars

\* Under the scale (2, 2, 0) a sink created at (1, 2, 3) among ears at depth 1
\* holds positions of depth 0, its emitter at (2, 4, 0), after both position
\* systems have run.
C30_Witness ==
    \E e \in Entities :
        /\ spatial_scale = SpatialScale_new_2d(2)
        /\ listeners /= <<>>
        /\ world[e].GlobalTransform = Some(EmitterTransform)
        /\ world[e].SpatialAudioSink /= None
        /\ Positions(Unwrap(world[e].SpatialAudioSink)) = <<<<2, 4, 0>>, <<4, 0, 0>>, <<-4, 0, 0>>>>
        /\ {<<"update_emitter_positions", "Pitch">>, <<"update_listener_positions", "Pitch">>}
                \subseteq ran

\* e carries a terminal marker and a sink that reports empty.
MarkedAndEmpty(e) ==
    /\ world[e].alive
    /\ world[e].PlaybackDespawnMarker \/ world[e].PlaybackRemoveMarker
    /\ \E sink \in SinkComponents :
            world[e][sink] /= None /\ Unwrap(world[e][sink]).empty

\* e is despawned in this step, or loses a handle, its settings, a sink or a
\* marker.
Reaped(e) ==
    /\ world[e].alive
    /\ \/ ~world'[e].alive
       \/ world'[e].Handle /= world[e].Handle /\ world'[e].Handle \subseteq world[e].Handle
       \/ world[e].PlaybackSettings /= None /\ world'[e].PlaybackSettings = None
       \/ \E sink \in SinkComponents : world[e][sink] /= None /\ world'[e][sink] = None
       \/ \E marker \in Markers : world[e][marker] /\ ~world'[e][marker]

\* C31: cleanup_finished_audio queues a despawn or a removal only for an
\* entity that carries a terminal marker and a sink that reports empty, no
\* other system queues one, and an entity is despawned or stripped only when
\* it carries a marker and an empty sink.
C31_ReapOnlyFinished ==
    [][\A e \in Entities :
          /\ Cardinality(ReapCommands(commands', e)) > Cardinality(ReapCommands(commands, e))
                => /\ \E T \in SourceTypes : SweepStep(T)
                   /\ MarkedAndEmpty(e)
          /\ Reaped(e) => MarkedAndEmpty(e)]_vars

\* The sweeps of a frame have run over a Despawn-marked entity whose sink
\* still plays, and nothing is queued for it.
C31_Witness ==
    \E e \in Entities :
        /\ ran = Systems
        /\ stream_handle
        /\ world[e].PlaybackDespawnMarker
        /\ world[e].SpatialAudioSink /= None
        /\ ~Unwrap(world[e].SpatialAudioSink).empty
        /\ ReapCommands(commands, e) = {}

\* The step that ends PostUpdate in the build with one source type.
EndOfFrame == ran = SpatialSystems /\ ran' = {}

\* C32 as stated: when a frame ends, every spatial sink on an entity with a
\* transform has its emitter at the translation of the entity multiplied per
\* axis by the scale.
C32_EmitterCurrent ==
    [][EndOfFrame =>
          \A e \in Entities :
              (world'[e].alive /\ world'[e].SpatialAudioSink /= None
                    /\ world'[e].GlobalTransform /= None) =>
                  Unwrap(world'[e].SpatialAudioSink).emitter
                      = Vec3Mul(Unwrap(world'[e].GlobalTransform).translation, spatial_scale')]_vars

\* C33 as stated: when a frame ends, every spatial sink holds the ears
\* get_ear_positions resolves from the listeners and the scale of that moment.
C33_EarsCurrent ==
    [][EndOfFrame =>
          \A e \in Entities :
              (world'[e].alive /\ world'[e].SpatialAudioSink /= None) =>
                  Ears(Unwrap(world'[e].SpatialAudioSink)) = get_ear_positions']_vars

\* The system has not run yet in this frame.
Pending(system, T) == <<system, T>> \notin ran

\* What the orchestrators and the reapers that have not run yet queue, taken
\* in the order of their registration, every open succeeding.
RemainingCommands ==
    IF ~stream_handle THEN <<>>
    ELSE   (IF Pending("play_queued_audio_system", "AudioSource")
            THEN PlayCommands("AudioSource", {}, MaxEntities) ELSE <<>>)
        \o (IF Pending("cleanup_finished_audio", "AudioSource")
            THEN CleanupCommands("AudioSource") ELSE <<>>)
        \o (IF Pending("play_queued_audio_system", "Pitch")
            THEN PlayCommands("Pitch", {}, MaxEntities) ELSE <<>>)
        \o (IF Pending("cleanup_finished_audio", "Pitch")
            THEN CleanupCommands("Pitch") ELSE <<>>)

\* The world once the position systems have seen every change of the frame.
AfterPositions ==
    IF ~stream_handle THEN world
    ELSE [e \in Entities |->
            LET moved == IF e \in EmitterQuery
                         THEN set_emitter_position(world[e],
                                  Vec3Mul(Unwrap(world[e].GlobalTransform).translation,
                                          spatial_scale))
                         ELSE world[e]
            IN  IF /\ scale_changed \/ ~changed_listener_is_empty
                   /\ moved.alive /\ moved.SpatialAudioSink /= None
                THEN set_ears_position(moved, get_ear_positions)
                ELSE moved]

\* The world at the end of the frame, were the systems that have not run yet
\* to run in the order of their registration.
Outcome == ApplyCommands(AfterPositions, commands \o RemainingCommands)

MarkerHasSink(ent) ==
    /\ (ent.PlaybackDespawnMarker \/ ent.PlaybackRemoveMarker)
            => (ent.AudioSink /= None \/ ent.SpatialAudioSink /= None)
    /\ ~(ent.PlaybackDespawnMarker /\ ent.PlaybackRemoveMarker)

\* C35: before and after every step an entity with a terminal marker carries
\* a sink and no entity carries both markers; a marker appears on an entity
\* only in a step in which a sink appears on it and goes only in a step in
\* which its sink goes.
C35_MarkerImpliesSink ==
    [][\A e \in Entities :
          /\ MarkerHasSink(world[e])
          /\ MarkerHasSink(world'[e])
          /\ \A marker \in Markers :
                /\ (~world[e][marker] /\ world'[e][marker]) =>
                        /\ world[e].AudioSink = None /\ world[e].SpatialAudioSink = None
                        /\ world'[e].AudioSink /= None \/ world'[e].SpatialAudioSink /= None
                /\ (world[e][marker] /\ ~world'[e][marker]) =>
                        /\ world[e].AudioSink /= None \/ world[e].SpatialAudioSink /= None
                        /\ world'[e].AudioSink = None /\ world'[e].SpatialAudioSink = None]_vars

\* A request that got its sink and the Despawn marker asks for Remove now and
\* has finished: it keeps the one marker it got.
C35_Witness ==
    \E e \in Entities :
        /\ Requested(e)
        /\ Settings(e).mode = "Remove"
        /\ world[e].AudioSink /= None
        /\ Unwrap(world[e].AudioSink).empty
        /\ world[e].PlaybackDespawnMarker
        /\ ~world[e].PlaybackRemoveMarker
        /\ ran = Systems

\* The listeners that have a GlobalTransform, by their place.
Placed == {i \in DOMAIN listeners : listeners[i].GlobalTransform /= None}

\* The ears of the first listener that has a GlobalTransform, and without
\* one the default ears under the scale.
PlacedEars ==
    IF Placed = {} THEN DefaultEars
    ELSE LET first == CHOOSE i \in Placed : \A j \in Placed : i <= j
         IN  EarsOf(Unwrap(listeners[first].GlobalTransform), listeners[first].SpatialListener)

\* C36: a listener without a GlobalTransform is passed over: a spatial sink
\* is created with, and update_listener_positions hands out, the ears of the
\* first listener that has one, the default ears under the scale when none
\* has; and the warning of several listeners counts those that have one.
C36_BareListenerSkipped ==
    [][/\ PlayStep("Pitch") =>
            \A sink \in NewSpatialSinks : Ears(sink) = PlacedEars
       /\ ListenerSyncStep =>
            \A e \in Entities :
                world[e].SpatialAudioSink /= None =>
                    Ears(Unwrap(world'[e].SpatialAudioSink)) = PlacedEars
       /\ multiple_listeners <=> Cardinality(Placed) > 1]_vars

\* Two listeners without a GlobalTransform, their ears 2 apart, and a spatial
\* sink queued under the scale (2, 2, 0) with the default ears and no warning
\* of several listeners.
C36_Witness ==
    /\ Len(listeners) = 2
    /\ Placed = {}
    /\ ~multiple_listeners
    /\ spatial_scale = SpatialScale_new_2d(2)
    /\ \E i \in DOMAIN commands :
          /\ commands[i].op = "insert"
          /\ Ears(Unwrap(commands[i].sink)) = <<<<-4, 0, 0>>, <<4, 0, 0>>>>

\* The entities for which this step queues a command.
NewlyQueuedFor == {commands'[i].entity : i \in DOMAIN commands' \ DOMAIN commands}

\* C37: the sweep of source type T queues a despawn or a removal only for
\* entities that carry Handle<T>; an entity with a sink and no source handle
\* left gets no command and stays as it is, sink, marker and settings, also
\* when its sink reports empty.
C37_ReapNeedsHandle ==
    [][/\ \A T \in SourceTypes :
            SweepStep(T) => \A e \in NewlyQueuedFor : T \in world[e].Handle
       /\ \A e \in Entities :
            (world[e].alive /\ world[e].Handle = {}
                /\ (world[e].AudioSink /= None \/ world[e].SpatialAudioSink /= None)) =>
                /\ e \notin NewlyQueuedFor
                /\ world'[e].alive
                /\ world'[e].Handle = {}
                /\ world'[e].PlaybackSettings = world[e].PlaybackSettings
                /\ \A sink \in SinkComponents :
                        world'[e][sink] = None <=> world[e][sink] = None
                /\ \A marker \in Markers : world'[e][marker] = world[e][marker]]_vars

\* With a device, both sweeps of a frame have run over a Despawn-marked entity
\* that has no source handle left and whose sink reports empty: nothing is
\* queued for it.
C37_Witness ==
    \E e \in Entities :
        /\ stream_handle
        /\ ran = Systems
        /\ world[e].Handle = {}
        /\ world[e].PlaybackDespawnMarker
        /\ world[e].AudioSink /= None
        /\ Unwrap(world[e].AudioSink).empty
        /\ commands = <<>>

\* C38: the progress of every loading bar is within [0, 1], and set_progress
\* on it stores a value within [0, 1] and leaves it as it is for any other.
C38_ProgressInRange ==
    \A w \in Widgets : \A widget \in widgets[w] :
        /\ get_progress(widget) >= 0
        /\ get_progress(widget) <= ProgressUnit
        /\ \A value \in RawProgress :
              IF 0 <= value /\ value <= ProgressUnit
              THEN get_progress(set_progress(widget, value)) = value
              ELSE set_progress(widget, value) = widget

\* While the example is loading, one bar is at a progress the example never
\* sets and the other is full.
C38_Witness ==
    /\ progress.kind = "Loading"
    /\ progress.value > 0
    /\ \E w \in Widgets : \E widget \in widgets[w] : get_progress(widget) = 5
    /\ \E w \in Widgets : \E widget \in widgets[w] : get_progress(widget) = ProgressUnit

====
